---- MODULE Spec2Model ----
(***************************************************************************)
(* Model of the pack canonicalization, signing and verification subsystem  *)
(* of greentic-pack (crates/packc/src/signing/*, crates/packc/src/         *)
(* manifest.rs).                                                           *)
(*                                                                         *)
(* Representation.                                                         *)
(*  - A byte string is a sequence of symbols; a symbol is a tuple whose    *)
(*    first element is a tag: <<"b", x>> is a run of plain bytes x, the    *)
(*    other tags are the lines of a TOML document.                         *)
(*  - SHA-256 and Ed25519 are library calls; they are modelled as ideal    *)
(*    primitives: the hash of a buffer is a term that names the buffer     *)
(*    (collision free), a signature is drawn from a table of the           *)
(*    (key, message) pairs signed so far (deterministic, unforgeable).     *)
(*  - base64 is computed on sextets, TOML is parsed line by line.          *)
(***************************************************************************)
EXTENDS Integers, Sequences, FiniteSets, TLC

VARIABLES fs, oracle, clock, last, signed, stripped, inflight

vars == <<fs, oracle, clock, last, signed, stripped, inflight>>

(***************************************************************************)
(* Bounds of the model.                                                    *)
(***************************************************************************)
MaxSignings == 2

(***************************************************************************)
(* Generic helpers.                                                        *)
(***************************************************************************)
Min(a, b) == IF a <= b THEN a ELSE b

(***************************************************************************)
(* base64, URL-safe alphabet, no padding (URL_SAFE_NO_PAD).  A character   *)
(* is its index 0..63 in the alphabet ('A' is 0); 64 stands for any        *)
(* character outside the alphabet.  A byte is 0..255.                      *)
(***************************************************************************)
B64_A == 0

B64_INVALID == 64

RECURSIVE B64Encode(_)
B64Encode(bytes) ==
  IF Len(bytes) = 0 THEN <<>>
  ELSE IF Len(bytes) = 1 THEN
    <<bytes[1] \div 4, (bytes[1] % 4) * 16>>
  ELSE IF Len(bytes) = 2 THEN
    LET n == bytes[1] * 256 + bytes[2]
    IN  <<n \div 1024, (n \div 16) % 64, (n % 16) * 4>>
  ELSE
    LET n == bytes[1] * 65536 + bytes[2] * 256 + bytes[3]
    IN  <<n \div 262144, (n \div 4096) % 64, (n \div 64) % 64, n % 64>>
          \o B64Encode(SubSeq(bytes, 4, Len(bytes)))

RECURSIVE B64DecodeValid(_)
B64DecodeValid(chars) ==
  IF Len(chars) = 0 THEN <<>>
  ELSE IF Len(chars) = 2 THEN <<chars[1] * 4 + chars[2] \div 16>>
  ELSE IF Len(chars) = 3 THEN
    LET n == chars[1] * 4096 + chars[2] * 64 + chars[3]
    IN  <<n \div 1024, (n \div 4) % 256>>
  ELSE
    LET n == chars[1] * 262144 + chars[2] * 4096 + chars[3] * 64 + chars[4]
    IN  <<n \div 65536, (n \div 256) % 256, n % 256>>
          \o B64DecodeValid(SubSeq(chars, 5, Len(chars)))

\* Result of URL_SAFE_NO_PAD.decode: <<"Ok", bytes>> or <<"Err", kind>>.
B64Decode(chars) ==
  LET n == Len(chars)
      r == n % 4
  IN  IF \E i \in 1..n : chars[i] \notin 0..63 THEN <<"Err", "InvalidByte">>
      ELSE IF r = 1 THEN <<"Err", "InvalidLength">>
      ELSE IF r = 2 /\ chars[n] % 16 # 0 THEN <<"Err", "InvalidLastSymbol">>
      ELSE IF r = 3 /\ chars[n] % 4 # 0 THEN <<"Err", "InvalidLastSymbol">>
      ELSE <<"Ok", B64DecodeValid(chars)>>

(***************************************************************************)
(* Results and options.                                                    *)
(***************************************************************************)
Ok(v) == <<"Ok", v>>

Err(kind) == <<"Err", kind>>

IsOk(r) == r[1] = "Ok"

None == <<"None">>

Some(v) == <<"Some", v>>

IsSome(o) == o[1] = "Some"

\* The ? operator: the value of an Ok result goes on, an error is returned.
AndThen(r, F(_)) == IF IsOk(r) THEN F(r[2]) ELSE r

\* map_err(E)?: the same, the error converted by E.
Try(r, E(_), F(_)) == IF IsOk(r) THEN F(r[2]) ELSE E(r[2])

(***************************************************************************)
(* The file system of one pack directory.  fs maps the relative path of    *)
(* every existing entry (a sequence of segments) to its node: a regular    *)
(* file <<"file", bytes>> or a symbolic link <<"link", target path>>.      *)
(* Directories are implicit.  The std::fs calls follow symbolic links.     *)
(***************************************************************************)
File(bytes) == <<"file", bytes>>

Link(target) == <<"link", target>>

B(x) == <<"b", x>>

ResolvePath(f, p) ==
  IF p \notin DOMAIN f THEN None
  ELSE IF f[p][1] = "file" THEN Some(p)
  ELSE IF f[p][2] \in DOMAIN f /\ f[f[p][2]][1] = "file" THEN Some(f[p][2])
  ELSE None

PathExists(f, p) == IsSome(ResolvePath(f, p))

ReadResolved(f, r) == IF IsSome(r) THEN Ok(f[r[2]][2]) ELSE Err("Filesystem")

FsRead(f, p) == ReadResolved(f, ResolvePath(f, p))

WriteResolved(f, q, bytes) ==
  [x \in DOMAIN f \cup {q} |-> IF x = q THEN File(bytes) ELSE f[x]]

FsWrite(f, p, bytes) ==
  WriteResolved(f, IF PathExists(f, p) THEN ResolvePath(f, p)[2] ELSE p, bytes)

FsRemove(f, p) == [x \in DOMAIN f \ {p} |-> f[x]]

(***************************************************************************)
(* PackSignature (manifest.rs) and its serde form inside a TOML table.     *)
(* created_at is an instant (a number); in the manifest it is RFC 3339     *)
(* text.                                                                   *)
(***************************************************************************)
PackSignature(alg, key_id, created_at, digest, sig) ==
  [alg |-> alg, key_id |-> key_id, created_at |-> created_at,
   digest |-> digest, sig |-> sig]

\* The decimal digits of a number, as the formatters write them.
Digit(d) == B(<<"0", "1", "2", "3", "4", "5", "6", "7", "8", "9">>[d + 1])

RECURSIVE Decimal(_)
Decimal(n) ==
  IF n < 10 THEN <<Digit(n)>> ELSE Decimal(n \div 10) \o <<Digit(n % 10)>>

IsDigit(c) == \E d \in 0..9 : c = Digit(d)

DigitValue(c) == CHOOSE d \in 0..9 : c = Digit(d)

RECURSIVE ParseDecimal(_)
ParseDecimal(digits) ==
  IF Len(digits) = 1 THEN DigitValue(digits[1])
  ELSE 10 * ParseDecimal(SubSeq(digits, 1, Len(digits) - 1))
         + DigitValue(digits[Len(digits)])

\* time::serde::rfc3339: an instant (seconds since the epoch) is written as
\* text and read back from text; text that is no timestamp is refused.
FormatRfc3339(t) == <<"rfc3339", Decimal(t)>>

ParseRfc3339(text) ==
  IF /\ text[1] = "rfc3339"
     /\ Len(text[2]) > 0
     /\ \A i \in DOMAIN text[2] : IsDigit(text[2][i])
    THEN Ok(ParseDecimal(text[2]))
    ELSE Err("time")

\* Value::try_from(signature): the five fields of the TOML table.
SignatureToToml(s) ==
  <<s.alg, s.key_id, FormatRfc3339(s.created_at), s.digest, s.sig>>

\* signature_value.try_into::<PackSignature>()
SignatureFromToml(f) ==
  Try(ParseRfc3339(f[3]),
      LAMBDA e : Err("SignatureBlock"),
      LAMBDA t : Ok(PackSignature(f[1], f[2], t, f[4], f[5])))

(***************************************************************************)
(* TOML.  A manifest text is a sequence of lines:                          *)
(*   <<"hdr", t>>      [t]            t is "package" or "greentic"         *)
(*   <<"kv", k, v>>    k = "v"                                             *)
(*   <<"sig", f>>      the signature = { ... } table, f its five fields   *)
(*   <<"ws">>          blank line or comment                               *)
(* A document (toml::Value::Table) is a record; a value is <<"absent">>,   *)
(* <<"scalar", v>> or a table.                                             *)
(***************************************************************************)
Hdr(t) == <<"hdr", t>>

Kv(k, v) == <<"kv", k, v>>

SigLine(f) == <<"sig", f>>

Ws == <<"ws">>

Absent == <<"absent">>

Scalar(v) == <<"scalar", v>>

PackageTable(name) == <<"table", name>>

GreenticTable(other, signature) == <<"table", other, signature>>

EmptyDoc == [package |-> Absent, greentic |-> Absent]

IsTable(v) == v[1] = "table"

ParseFail(st) == [st EXCEPT !.ok = FALSE]

ParseLine(st, ln) ==
  IF ~st.ok THEN st
  ELSE IF ln[1] = "ws" THEN st
  ELSE IF ln[1] = "hdr" THEN
    IF ln[2] = "package" /\ st.doc.package = Absent
      THEN [st EXCEPT !.sec = "package", !.doc.package = PackageTable(Absent)]
    ELSE IF ln[2] = "greentic" /\ st.doc.greentic = Absent
      THEN [st EXCEPT !.sec = "greentic",
                      !.doc.greentic = GreenticTable(Absent, Absent)]
    ELSE ParseFail(st)
  ELSE IF ln[1] = "kv" THEN
    IF st.sec = "" /\ ln[2] = "greentic" /\ st.doc.greentic = Absent
      THEN [st EXCEPT !.doc.greentic = Scalar(ln[3])]
    ELSE IF st.sec = "package" /\ ln[2] = "name" /\ st.doc.package[2] = Absent
      THEN [st EXCEPT !.doc.package = PackageTable(Scalar(ln[3]))]
    ELSE IF st.sec = "greentic" /\ ln[2] = "other" /\ st.doc.greentic[2] = Absent
      THEN [st EXCEPT !.doc.greentic =
                         GreenticTable(Scalar(ln[3]), st.doc.greentic[3])]
    ELSE IF st.sec = "greentic" /\ ln[2] = "signature"
            /\ st.doc.greentic[3] = Absent
      THEN [st EXCEPT !.doc.greentic =
                         GreenticTable(st.doc.greentic[2], Scalar(ln[3]))]
    ELSE ParseFail(st)
  ELSE IF ln[1] = "sig" THEN
    IF st.sec = "greentic" /\ st.doc.greentic[3] = Absent
      THEN [st EXCEPT !.doc.greentic =
                         GreenticTable(st.doc.greentic[2], <<"table", ln[2]>>)]
    ELSE ParseFail(st)
  ELSE ParseFail(st)

RECURSIVE ParseLines(_, _)
ParseLines(st, text) ==
  IF text = <<>> THEN st ELSE ParseLines(ParseLine(st, Head(text)), Tail(text))

\* toml::from_str::<Table>
ParseResult(st) == IF st.ok THEN Ok(st.doc) ELSE Err("ManifestParse")

TomlFromStr(text) ==
  ParseResult(ParseLines([ok |-> TRUE, sec |-> "", doc |-> EmptyDoc], text))

\* The serializer writes the keys of a table in key order, values before
\* sub-tables; the pretty form differs from the plain one in layout only.
EmitSections(g, p, sep) ==
  (IF g[1] = "scalar" THEN <<Kv("greentic", g[2])>> ELSE <<>>)
    \o (IF IsTable(g)
          THEN <<Hdr("greentic")>>
                 \o (IF g[2] = Absent THEN <<>> ELSE <<Kv("other", g[2][2])>>)
                 \o (IF g[3] = Absent THEN <<>>
                     ELSE IF g[3][1] = "scalar" THEN <<Kv("signature", g[3][2])>>
                     ELSE <<SigLine(g[3][2])>>)
                 \o sep
          ELSE <<>>)
    \o (IF IsTable(p)
          THEN <<Hdr("package")>>
                 \o (IF p[2] = Absent THEN <<>> ELSE <<Kv("name", p[2][2])>>)
                 \o sep
          ELSE <<>>)

TomlEmit(doc, sep) == EmitSections(doc.greentic, doc.package, sep)

\* toml::to_string
TomlToString(doc) == TomlEmit(doc, <<>>)

\* toml::to_string_pretty
TomlToStringPretty(doc) == TomlEmit(doc, <<Ws>>)

(***************************************************************************)
(* Manifest signature store (manifest.rs).                                 *)
(***************************************************************************)
MANIFEST_CANDIDATES == <<"pack.toml", "greentic-pack.toml">>

FirstOf(found) ==
  IF found = {} THEN None
  ELSE Some(<<MANIFEST_CANDIDATES[CHOOSE i \in found : \A j \in found : i <= j]>>)

find_manifest_path(f) ==
  FirstOf({i \in DOMAIN MANIFEST_CANDIDATES :
              PathExists(f, <<MANIFEST_CANDIDATES[i]>>)})

OkOr(o, e) == IF IsSome(o) THEN Ok(o[2]) ELSE Err(e)

manifest_path(f) == OkOr(find_manifest_path(f), "ManifestNotFound")

is_pack_manifest_path(path) ==
  /\ Len(path) > 0
  /\ \E i \in DOMAIN MANIFEST_CANDIDATES :
        MANIFEST_CANDIDATES[i] = path[Len(path)]

load_manifest_value(f, path) ==
  AndThen(FsRead(f, path), LAMBDA source : TomlFromStr(source))

\* Mutant: the greentic section is kept when the signature was its only key.
strip_signature_KeepSection(doc) ==
  IF IsTable(doc.greentic)
    THEN [doc EXCEPT !.greentic = GreenticTable(doc.greentic[2], Absent)]
    ELSE doc

strip_signature(doc) ==
  IF IsTable(doc.greentic)
    THEN IF doc.greentic[2] = Absent
           THEN [doc EXCEPT !.greentic = Absent]
           ELSE [doc EXCEPT !.greentic = GreenticTable(doc.greentic[2], Absent)]
    ELSE doc

\* Mutant: the greentic section is replaced by one holding the signature only.
set_signature_FreshSection(doc, signature) ==
  IF doc.greentic = Absent \/ IsTable(doc.greentic)
    THEN Ok([doc EXCEPT !.greentic =
                 GreenticTable(Absent, <<"table", SignatureToToml(signature)>>)])
    ELSE Err("ManifestShape")

set_signature(doc, signature) ==
  IF doc.greentic = Absent
    THEN Ok([doc EXCEPT !.greentic =
                 GreenticTable(Absent, <<"table", SignatureToToml(signature)>>)])
  ELSE IF IsTable(doc.greentic)
    THEN Ok([doc EXCEPT !.greentic =
                 GreenticTable(doc.greentic[2],
                               <<"table", SignatureToToml(signature)>>)])
  ELSE Err("ManifestShape")

\* Mutant: a `greentic` value that is not a table, or a `signature` value
\* that is not a signature, counts as no signature.
signature_from_doc_Lenient(doc) ==
  IF doc.greentic = Absent THEN Ok(None)
  ELSE IF ~IsTable(doc.greentic) THEN Ok(None)
  ELSE IF doc.greentic[3] = Absent THEN Ok(None)
  ELSE IF doc.greentic[3][1] # "table" THEN Ok(None)
  ELSE Try(SignatureFromToml(doc.greentic[3][2]),
           LAMBDA e : Ok(None),
           LAMBDA s : Ok(Some(s)))

signature_from_doc(doc) ==
  IF doc.greentic = Absent THEN Ok(None)
  ELSE IF ~IsTable(doc.greentic) THEN Err("ManifestShape")
  ELSE IF doc.greentic[3] = Absent THEN Ok(None)
  ELSE IF doc.greentic[3][1] # "table" THEN Err("SignatureBlock")
  ELSE AndThen(SignatureFromToml(doc.greentic[3][2]), LAMBDA s : Ok(Some(s)))

read_manifest_without_signature(f, path) ==
  AndThen(load_manifest_value(f, path),
          LAMBDA doc : Ok(TomlToString(strip_signature(doc))))

ReadSignatureAt(f, path) ==
  IF ~IsSome(path) THEN Ok(None)
  ELSE AndThen(load_manifest_value(f, path[2]),
               LAMBDA doc : signature_from_doc(doc))

read_signature(f) == ReadSignatureAt(f, find_manifest_path(f))

\* Mutant: the output path is ignored, the manifest is rewritten in place.
write_signature_InPlace(f, signature, out_path) ==
  AndThen(manifest_path(f), LAMBDA mp :
    AndThen(load_manifest_value(f, mp), LAMBDA doc :
      AndThen(set_signature(doc, signature), LAMBDA set :
        Ok(FsWrite(f, mp, TomlToStringPretty(set))))))

\* Ok(the file system after the write) or the error.
write_signature(f, signature, out_path) ==
  AndThen(manifest_path(f), LAMBDA mp :
    AndThen(load_manifest_value(f, mp), LAMBDA doc :
      AndThen(set_signature(doc, signature), LAMBDA set :
        Ok(FsWrite(f, IF IsSome(out_path) THEN out_path[2] ELSE mp,
                   TomlToStringPretty(set))))))

(***************************************************************************)
(* Canonicalizer (signing/canon.rs).                                       *)
(***************************************************************************)
\* The file names of the model in the byte order of Rust's String
\* comparison.  No name is a prefix of another one followed by a byte
\* below '/', so comparing the joined strings name by name is comparing
\* them byte by byte.
NAME_ORDER ==
  <<".DS_Store", ".env", ".git", ".gitignore", ".packignore", "/",
    "alias.toml", "cache.bin",
    "config", "flows", "greentic-pack.toml", "ignored", "main.flow",
    "pack.toml", "secret.txt", "sub", "target", "\\xff">>

NameRank(n) == CHOOSE i \in DOMAIN NAME_ORDER : NAME_ORDER[i] = n

\* a.cmp(&b) on the joined path strings: TRUE when a < b.
RECURSIVE StrLess(_, _)
StrLess(a, b) ==
  IF b = <<>> THEN FALSE
  ELSE IF a = <<>> THEN TRUE
  ELSE IF Head(a) = Head(b) THEN StrLess(Tail(a), Tail(b))
  ELSE NameRank(Head(a)) < NameRank(Head(b))

\* A file name that is not valid UTF-8 (the last name of NAME_ORDER).
NON_UTF8 == "\\xff"

\* Mutant: target/ is walked like any other directory.
should_skip_GitOnly(path) ==
  \/ \E i \in DOMAIN path : path[i] = ".git"
  \/ (Len(path) > 0 /\ path[Len(path)] = ".DS_Store")

\* Mutant: .DS_Store files are not skipped.
should_skip_NoDsStore(path) ==
  \E i \in DOMAIN path : path[i] \in {".git", "target"}

\* Mutant: the ignore file is skipped like .DS_Store.
should_skip_IgnoreFile(path) ==
  \/ \E i \in DOMAIN path : path[i] \in {".git", "target"}
  \/ (Len(path) > 0 /\ path[Len(path)] \in {".DS_Store", ".packignore"})

should_skip(path) ==
  \/ \E i \in DOMAIN path : path[i] \in {".git", "target"}
  \/ (Len(path) > 0 /\ path[Len(path)] = ".DS_Store")

RECURSIVE JoinSegments(_)
JoinSegments(segs) ==
  IF Len(segs) = 0 THEN <<>>
  ELSE IF Len(segs) = 1 THEN segs
  ELSE <<Head(segs), "/">> \o JoinSegments(Tail(segs))

normalize_path(path) ==
  IF \E i \in DOMAIN path : path[i] = NON_UTF8 THEN None
  ELSE Some(JoinSegments(path))

(***************************************************************************)
(* The walk (WalkBuilder, canon.rs 29-40): every entry under the root,     *)
(* links followed, hidden files included, no VCS ignore file consulted,    *)
(* the root's .packignore honoured with gitignore semantics.  A line of    *)
(* .packignore is <<"pat", negated, kind, name>>: kind "under" is the      *)
(* pattern name/** (everything below the top-level directory name), kind  *)
(* "name" is the pattern name (an entry called name, at any depth).  The   *)
(* last matching line decides; an ignored directory is not entered.        *)
(***************************************************************************)
Pat(negated, kind, name) == <<"pat", negated, kind, name>>

PACKIGNORE == <<".packignore">>

IgnoreLines(f) == IF PathExists(f, PACKIGNORE) THEN FsRead(f, PACKIGNORE)[2] ELSE <<>>

LineMatches(ln, entry) ==
  /\ ln[1] = "pat"
  /\ \/ ln[3] = "under" /\ Len(entry) >= 2 /\ entry[1] = ln[4]
     \/ ln[3] = "name" /\ entry[Len(entry)] = ln[4]

LastHitIgnores(lines, hits) ==
  /\ hits # {}
  /\ ~lines[CHOOSE i \in hits : \A j \in hits : j <= i][2]

EntryIgnored(lines, entry) ==
  LastHitIgnores(lines, {i \in DOMAIN lines : LineMatches(lines[i], entry)})

PathIgnored(lines, path) ==
  \E k \in 1..Len(path) : EntryIgnored(lines, SubSeq(path, 1, k))

\* The filters a WalkBuilder can apply: hidden(true) leaves out every entry
\* whose name starts with a dot, git_ignore(true) honours .gitignore.
HIDDEN_NAMES == {".DS_Store", ".env", ".git", ".gitignore", ".packignore"}

GITIGNORE == <<".gitignore">>

GitIgnoreLines(f) ==
  IF PathExists(f, GITIGNORE) THEN FsRead(f, GITIGNORE)[2] ELSE <<>>

WalkedWith(f, hidden, git_ignore) ==
  {p \in DOMAIN f :
     /\ ~PathIgnored(IgnoreLines(f), p)
     /\ hidden => \A i \in DOMAIN p : p[i] \notin HIDDEN_NAMES
     /\ git_ignore => ~PathIgnored(GitIgnoreLines(f), p)}

\* Mutant: the walker is left with its standard filters.
Walked_StandardFilters(f) == WalkedWith(f, TRUE, TRUE)

\* The paths the walker yields (in an order the caller does not control):
\* standard_filters(false), git_ignore(false), hidden(false).
Walked(f) == WalkedWith(f, FALSE, FALSE)

\* A walked link whose target is missing makes the walk fail.
WalkFails(f) == \E p \in Walked(f) : ~PathExists(f, p)

\* One iteration of the loop over the walker (canon.rs 42-80): the entries
\* collected so far, or the error that ended the call.
CollectEntry(f, acc, path) ==
  IF ~IsOk(acc) THEN acc
  ELSE IF should_skip(path) THEN acc
  ELSE IF ~IsSome(normalize_path(path)) THEN Err("PathEncoding")
  ELSE AndThen(IF is_pack_manifest_path(path)
                 THEN read_manifest_without_signature(f, path)
                 ELSE FsRead(f, path),
               LAMBDA contents :
                 Ok(Append(acc[2], [rel_path |-> normalize_path(path)[2],
                                    contents |-> contents])))

RECURSIVE CollectEntries(_, _, _)
CollectEntries(f, acc, order) ==
  IF order = <<>> THEN acc
  ELSE CollectEntries(f, CollectEntry(f, acc, Head(order)), Tail(order))

\* entries.sort_by(|a, b| a.rel_path.cmp(&b.rel_path)): a stable sort.
RECURSIVE InsertSorted(_, _)
InsertSorted(sorted, e) ==
  IF sorted = <<>> THEN <<e>>
  ELSE IF StrLess(e.rel_path, Head(sorted).rel_path) THEN <<e>> \o sorted
  ELSE <<Head(sorted)>> \o InsertSorted(Tail(sorted), e)

\* Mutant: the entries are hashed in the order the walker yielded them.
SortEntries_Unsorted(entries) == entries

RECURSIVE SortEntries(_)
SortEntries(entries) ==
  IF entries = <<>> THEN <<>>
  ELSE InsertSorted(SortEntries(SubSeq(entries, 1, Len(entries) - 1)),
                    entries[Len(entries)])

\* format!("{}", n) of a length.
\* Mutant: the buffer records the paths only.
EntryBytes_PathOnly(e) ==
  <<B("PATH\\0")>> \o [i \in DOMAIN e.rel_path |-> B(e.rel_path[i])]
    \o <<B("\n")>>

\* Mutant: LEN records the length of the path.
EntryBytes_LenOfPath(e) ==
  <<B("PATH\\0")>> \o [i \in DOMAIN e.rel_path |-> B(e.rel_path[i])]
    \o <<B("\nLEN\\0")>> \o Decimal(Len(e.rel_path)) \o <<B("\n")>>
    \o e.contents

EntryBytes(e) ==
  <<B("PATH\\0")>> \o [i \in DOMAIN e.rel_path |-> B(e.rel_path[i])]
    \o <<B("\nLEN\\0")>> \o Decimal(Len(e.contents)) \o <<B("\n")>>
    \o e.contents

RECURSIVE BuildBuffer(_)
BuildBuffer(entries) ==
  IF entries = <<>> THEN <<>>
  ELSE EntryBytes(Head(entries)) \o BuildBuffer(Tail(entries))

\* SHA-256 as an ideal hash, and its hex text.
Sha256(bytes) == <<"sha256", bytes>>

HexEncode(d) == <<"hex", d>>

\* format!("sha256:{}", digest_hex)
DigestString(digest_hex) == <<"sha256:", digest_hex>>

CanonicalizedPack(buffer) ==
  [bytes |-> buffer, digest_hex |-> HexEncode(Sha256(buffer))]

\* The sorted entries (canon.rs 42-82) when the walker yields `order`.
canonical_entries(f, order) ==
  IF WalkFails(f) THEN Err("Walk")
  ELSE AndThen(CollectEntries(f, Ok(<<>>), order),
               LAMBDA entries : Ok(SortEntries(entries)))

\* canonicalize_pack_dir when the walker yields the paths in `order`.
canonicalize_in_order(f, order) ==
  AndThen(canonical_entries(f, order),
          LAMBDA sorted : Ok(CanonicalizedPack(BuildBuffer(sorted))))

\* The orders a walk can have: the permutations of the walked paths.
OrdersOf(w) ==
  {o \in [1..Cardinality(w) -> w] :
     \A i, j \in 1..Cardinality(w) : i # j => o[i] # o[j]}

WalkOrders(f) == OrdersOf(Walked(f))

\* One walk order: descending by path.
Greatest(paths) ==
  CHOOSE p \in paths :
    \A q \in paths \ {p} : StrLess(JoinSegments(q), JoinSegments(p))

RECURSIVE DirectoryOrder(_)
DirectoryOrder(paths) ==
  IF paths = {} THEN <<>>
  ELSE <<Greatest(paths)>> \o DirectoryOrder(paths \ {Greatest(paths)})

canonicalize_pack_dir(f) == canonicalize_in_order(f, DirectoryOrder(Walked(f)))

(***************************************************************************)
(* Keys.  A private key is its seed (1, 2, ...); a PEM document is         *)
(* <<label, der>>, label "" when the text is no PEM at all, der            *)
(* <<"pkcs8", seed>>, <<"spki", public key>> or anything else.             *)
(***************************************************************************)
PublicKeyOf(seed) == seed + 100

Pem(label, der) == <<label, der>>

PrivatePem(seed) == Pem("PRIVATE KEY", <<"pkcs8", seed>>)

PublicPem(pk) == Pem("PUBLIC KEY", <<"spki", pk>>)

GarbagePem == Pem("", <<"junk", 0>>)

\* SigningKey::from_pkcs8_pem, then the "ED25519 PRIVATE KEY" label.
load_signing_key(pem) ==
  IF pem[1] = "PRIVATE KEY" /\ pem[2][1] = "pkcs8" THEN Ok(pem[2][2])
  ELSE IF pem[1] = "" THEN Err("LoadKey")
  ELSE IF pem[1] # "ED25519 PRIVATE KEY" THEN Err("LoadKey")
  ELSE IF pem[2][1] = "pkcs8" THEN Ok(pem[2][2])
  ELSE Err("LoadKey")

\* VerifyingKey::from_public_key_pem
from_public_key_pem(pem) ==
  IF pem[1] = "PUBLIC KEY" /\ pem[2][1] = "spki" THEN Ok(pem[2][2])
  ELSE Err("PublicKeySpki")

\* hex::encode(&Sha256::digest(public_key_bytes)[..16]): the fingerprints
\* of the model's public keys (distinct keys, distinct fingerprints).
derive_key_id(pk) ==
  CASE pk = 101 -> "5f0c6a1d9b3e4c28a7d1e0f42b6c9a13"
    [] pk = 102 -> "c41e7b02d95a4f6e8b3c1a7d0e2f5b96"
    [] OTHER -> "00000000000000000000000000000000"

(***************************************************************************)
(* Ed25519 as an ideal signature scheme.  oracle is the sequence of the    *)
(* <<seed, message>> pairs signed so far; the signature of the i-th pair   *)
(* is the 64 bytes SignatureBytes(i).  Signing is deterministic (a pair    *)
(* signed again gets the same bytes) and a signature verifies only for the *)
(* pair it was made for.                                                   *)
(***************************************************************************)
SIGNATURE_BYTE_SIZE == 64

SignatureBytes(i) == [j \in 1..SIGNATURE_BYTE_SIZE |-> (i * 31 + j * 7) % 256]

OracleIndex(orc, seed, msg) ==
  IF \E i \in DOMAIN orc : orc[i] = <<seed, msg>>
    THEN CHOOSE i \in DOMAIN orc : orc[i] = <<seed, msg>>
    ELSE Len(orc) + 1

OracleAfter(orc, seed, msg) ==
  IF OracleIndex(orc, seed, msg) = Len(orc) + 1
    THEN Append(orc, <<seed, msg>>) ELSE orc

\* signing_key.sign(msg).to_bytes()
Ed25519Sign(orc, seed, msg) == SignatureBytes(OracleIndex(orc, seed, msg))

\* verifying_key.verify(msg, signature)
Ed25519Verify(orc, pk, msg, sigbytes) ==
  \E i \in DOMAIN orc :
     /\ PublicKeyOf(orc[i][1]) = pk
     /\ orc[i][2] = msg
     /\ sigbytes = SignatureBytes(i)

\* Ed25519Signature::from_slice: only the length is inspected.
signature_from_slice(raw) ==
  IF Len(raw) = SIGNATURE_BYTE_SIZE THEN Ok(raw) ELSE Err("SignatureMalformed")

(***************************************************************************)
(* Signer (signing/signer.rs, signing/mod.rs).                             *)
(***************************************************************************)
\* Mutant: the key identifier is always the fingerprint of the key.
sign_pack_FingerprintOnly(f, orc, now, private_key_pem, key_id_override) ==
  AndThen(canonicalize_pack_dir(f), LAMBDA canonical :
    AndThen(load_signing_key(private_key_pem), LAMBDA signing_key :
      Ok([signature |->
            PackSignature("ed25519",
                          derive_key_id(PublicKeyOf(signing_key)),
                          now,
                          DigestString(canonical.digest_hex),
                          B64Encode(Ed25519Sign(orc, signing_key,
                                                canonical.bytes))),
          canonical |-> canonical,
          oracle |-> OracleAfter(orc, signing_key, canonical.bytes)])))

\* sign_pack at time `now`: Ok([signature, canonical, oracle]) or the error.
sign_pack(f, orc, now, private_key_pem, key_id_override) ==
  AndThen(canonicalize_pack_dir(f), LAMBDA canonical :
    AndThen(load_signing_key(private_key_pem), LAMBDA signing_key :
      Ok([signature |->
            PackSignature("ed25519",
                          IF IsSome(key_id_override)
                            THEN key_id_override[2]
                            ELSE derive_key_id(PublicKeyOf(signing_key)),
                          now,
                          DigestString(canonical.digest_hex),
                          B64Encode(Ed25519Sign(orc, signing_key,
                                                canonical.bytes))),
          canonical |-> canonical,
          oracle |-> OracleAfter(orc, signing_key, canonical.bytes)])))

\* sign_pack_dir: Ok([signature, fs, oracle]) or the error (nothing written).
sign_pack_dir(f, orc, now, private_key_pem, key_id) ==
  AndThen(sign_pack(f, orc, now, private_key_pem, key_id), LAMBDA outcome :
    AndThen(write_signature(f, outcome.signature, None), LAMBDA written :
      Ok([signature |-> outcome.signature,
          fs |-> written,
          oracle |-> outcome.oracle])))

(***************************************************************************)
(* Verifier (signing/verify.rs).  An error is <<"Err", kind, data>>.       *)
(***************************************************************************)
VerificationError(kind, data) == <<"Err", kind, data>>

UNIX_EPOCH == 0

\* str::eq_ignore_ascii_case against "ed25519", on the alg values of the model.
ToAsciiLowercase(str) ==
  CASE str = "ED25519" -> "ed25519"
    [] str = "Ed25519" -> "ed25519"
    [] str = "NONE" -> "none"
    [] OTHER -> str

VerifyOptions(public_key_pem, allow_unsigned) ==
  [public_key_pem |-> public_key_pem, allow_unsigned |-> allow_unsigned]

\* verify.rs 99-113
\* Mutant: the length of the decoded signature is not checked.
verify_signature_bytes_AnyLength(orc, canonical, signature, verifying_key) ==
  Try(B64Decode(signature.sig),
      LAMBDA e : VerificationError("SignatureDecode", e),
      LAMBDA raw_signature :
        IF ~IsOk(signature_from_slice(raw_signature))
          THEN VerificationError("SignatureMalformed", <<>>)
        ELSE IF ~Ed25519Verify(orc, verifying_key, canonical.bytes,
                               raw_signature)
          THEN VerificationError("InvalidSignature", signature.key_id)
        ELSE Ok(signature))

\* Mutant: the signature returned has its alg in lower case.
verify_signature_bytes_LowercaseAlg(orc, canonical, signature, verifying_key) ==
  Try(B64Decode(signature.sig),
      LAMBDA e : VerificationError("SignatureDecode", e),
      LAMBDA raw_signature :
        IF Len(raw_signature) # SIGNATURE_BYTE_SIZE
          THEN VerificationError("SignatureLength", Len(raw_signature))
        ELSE IF ~IsOk(signature_from_slice(raw_signature))
          THEN VerificationError("SignatureMalformed", <<>>)
        ELSE IF ~Ed25519Verify(orc, verifying_key, canonical.bytes,
                               raw_signature)
          THEN VerificationError("InvalidSignature", signature.key_id)
        ELSE Ok([signature EXCEPT !.alg = ToAsciiLowercase(@)]))

\* Mutant: the decoded signature is not verified against the key.
verify_signature_bytes_Unverified(orc, canonical, signature, verifying_key) ==
  Try(B64Decode(signature.sig),
      LAMBDA e : VerificationError("SignatureDecode", e),
      LAMBDA raw_signature :
        IF Len(raw_signature) # SIGNATURE_BYTE_SIZE
          THEN VerificationError("SignatureLength", Len(raw_signature))
        ELSE IF ~IsOk(signature_from_slice(raw_signature))
          THEN VerificationError("SignatureMalformed", <<>>)
        ELSE Ok(signature))

verify_signature_bytes(orc, canonical, signature, verifying_key) ==
  Try(B64Decode(signature.sig),
      LAMBDA e : VerificationError("SignatureDecode", e),
      LAMBDA raw_signature :
        IF Len(raw_signature) # SIGNATURE_BYTE_SIZE
          THEN VerificationError("SignatureLength", Len(raw_signature))
        ELSE IF ~IsOk(signature_from_slice(raw_signature))
          THEN VerificationError("SignatureMalformed", <<>>)
        ELSE IF ~Ed25519Verify(orc, verifying_key, canonical.bytes,
                               raw_signature)
          THEN VerificationError("InvalidSignature", signature.key_id)
        ELSE Ok(signature))

\* Mutant: the key identifier is not compared.
verify_with_key_AnyKeyId(orc, canonical, signature, opts) ==
  IF ~IsSome(opts.public_key_pem)
    THEN VerificationError("KeyNotFound", signature.key_id)
  ELSE Try(from_public_key_pem(opts.public_key_pem[2]),
           LAMBDA e : VerificationError("PublicKeySpki", <<>>),
           LAMBDA verifying_key :
             verify_signature_bytes(orc, canonical, signature, verifying_key))

\* Mutant: the key identifier is compared only when the signature bytes do
\* not verify under the supplied key.
verify_with_key_SignatureFirst(orc, canonical, signature, opts) ==
  IF ~IsSome(opts.public_key_pem)
    THEN VerificationError("KeyNotFound", signature.key_id)
  ELSE Try(from_public_key_pem(opts.public_key_pem[2]),
           LAMBDA e : VerificationError("PublicKeySpki", <<>>),
           LAMBDA verifying_key :
             IF IsOk(verify_signature_bytes(orc, canonical, signature,
                                            verifying_key))
               THEN Ok(signature)
             ELSE IF derive_key_id(verifying_key) # signature.key_id
               THEN VerificationError("KeyIdMismatch",
                                      <<signature.key_id,
                                        derive_key_id(verifying_key)>>)
             ELSE verify_signature_bytes(orc, canonical, signature,
                                         verifying_key))

\* verify.rs 83-97
verify_with_key(orc, canonical, signature, opts) ==
  IF ~IsSome(opts.public_key_pem)
    THEN VerificationError("KeyNotFound", signature.key_id)
  ELSE Try(from_public_key_pem(opts.public_key_pem[2]),
           LAMBDA e : VerificationError("PublicKeySpki", <<>>),
           LAMBDA verifying_key :
             IF derive_key_id(verifying_key) # signature.key_id
               THEN VerificationError("KeyIdMismatch",
                                      <<signature.key_id,
                                        derive_key_id(verifying_key)>>)
             ELSE verify_signature_bytes(orc, canonical, signature,
                                         verifying_key))

\* Mutant: an unsigned pack is refused whatever the options say.
verify_stored_RefusingUnsigned(orc, canonical, signature_opt, opts) ==
  IF ~IsSome(signature_opt)
    THEN VerificationError("MissingSignature", <<>>)
  ELSE IF ToAsciiLowercase(signature_opt[2].alg) # "ed25519"
    THEN VerificationError("UnsupportedAlgorithm", signature_opt[2].alg)
  ELSE IF signature_opt[2].digest # DigestString(canonical.digest_hex)
    THEN VerificationError("DigestMismatch",
                           <<signature_opt[2].digest,
                             DigestString(canonical.digest_hex)>>)
  ELSE verify_with_key(orc, canonical, signature_opt[2], opts)

\* Mutant: the digest is compared only after the key checks have passed.
verify_stored_DigestAfterKey(orc, canonical, signature_opt, opts) ==
  IF ~IsSome(signature_opt)
    THEN IF opts.allow_unsigned
           THEN Ok(PackSignature("none", "unsigned", UNIX_EPOCH,
                                 DigestString(canonical.digest_hex), <<>>))
           ELSE VerificationError("MissingSignature", <<>>)
  ELSE IF ToAsciiLowercase(signature_opt[2].alg) # "ed25519"
    THEN VerificationError("UnsupportedAlgorithm", signature_opt[2].alg)
  ELSE IF ~IsOk(verify_with_key(orc, canonical, signature_opt[2], opts))
    THEN verify_with_key(orc, canonical, signature_opt[2], opts)
  ELSE IF signature_opt[2].digest # DigestString(canonical.digest_hex)
    THEN VerificationError("DigestMismatch",
                           <<signature_opt[2].digest,
                             DigestString(canonical.digest_hex)>>)
  ELSE Ok(signature_opt[2])

\* Mutant: the algorithm is compared with "ed25519" letter for letter.
verify_stored_ExactAlg(orc, canonical, signature_opt, opts) ==
  IF ~IsSome(signature_opt)
    THEN IF opts.allow_unsigned
           THEN Ok(PackSignature("none", "unsigned", UNIX_EPOCH,
                                 DigestString(canonical.digest_hex), <<>>))
           ELSE VerificationError("MissingSignature", <<>>)
  ELSE IF signature_opt[2].alg # "ed25519"
    THEN VerificationError("UnsupportedAlgorithm", signature_opt[2].alg)
  ELSE IF signature_opt[2].digest # DigestString(canonical.digest_hex)
    THEN VerificationError("DigestMismatch",
                           <<signature_opt[2].digest,
                             DigestString(canonical.digest_hex)>>)
  ELSE verify_with_key(orc, canonical, signature_opt[2], opts)

\* Mutant: with allow_unsigned a stored block that fails the key checks is
\* answered like an unsigned pack.
verify_stored_UnsignedFallback(orc, canonical, signature_opt, opts) ==
  IF ~IsSome(signature_opt)
    THEN IF opts.allow_unsigned
           THEN Ok(PackSignature("none", "unsigned", UNIX_EPOCH,
                                 DigestString(canonical.digest_hex), <<>>))
           ELSE VerificationError("MissingSignature", <<>>)
  ELSE IF ToAsciiLowercase(signature_opt[2].alg) # "ed25519"
    THEN VerificationError("UnsupportedAlgorithm", signature_opt[2].alg)
  ELSE IF signature_opt[2].digest # DigestString(canonical.digest_hex)
    THEN VerificationError("DigestMismatch",
                           <<signature_opt[2].digest,
                             DigestString(canonical.digest_hex)>>)
  ELSE IF opts.allow_unsigned
            /\ ~IsOk(verify_with_key(orc, canonical, signature_opt[2], opts))
    THEN Ok(PackSignature("none", "unsigned", UNIX_EPOCH,
                          DigestString(canonical.digest_hex), <<>>))
  ELSE verify_with_key(orc, canonical, signature_opt[2], opts)

\* verify.rs 55-81
verify_stored(orc, canonical, signature_opt, opts) ==
  IF ~IsSome(signature_opt)
    THEN IF opts.allow_unsigned
           THEN Ok(PackSignature("none", "unsigned", UNIX_EPOCH,
                                 DigestString(canonical.digest_hex), <<>>))
           ELSE VerificationError("MissingSignature", <<>>)
  ELSE IF ToAsciiLowercase(signature_opt[2].alg) # "ed25519"
    THEN VerificationError("UnsupportedAlgorithm", signature_opt[2].alg)
  ELSE IF signature_opt[2].digest # DigestString(canonical.digest_hex)
    THEN VerificationError("DigestMismatch",
                           <<signature_opt[2].digest,
                             DigestString(canonical.digest_hex)>>)
  ELSE verify_with_key(orc, canonical, signature_opt[2], opts)

verify_pack(f, orc, opts) ==
  Try(canonicalize_pack_dir(f),
      LAMBDA e : VerificationError("Manifest", e),
      LAMBDA canonical :
        Try(read_signature(f),
            LAMBDA e : VerificationError("Manifest", e),
            LAMBDA signature_opt :
              verify_stored(orc, canonical, signature_opt, opts)))

\* verify_pack_dir: the same outcome, the error wrapped in anyhow.
verify_pack_dir(f, orc, opts) == verify_pack(f, orc, opts)

(***************************************************************************)
(* The packs the model starts from and the inputs of the operations.       *)
(***************************************************************************)
PACK_TOML == <<"pack.toml">>

MAIN_FLOW == <<"flows", "main.flow">>

ALIAS_TOML == <<"alias.toml">>

GIT_CONFIG == <<".git", "config">>

TARGET_CACHE == <<"target", "cache.bin">>

IGNORED_SECRET == <<"ignored", "secret.txt">>

\* The manifest of the tests: "[package]\nname = \"demo\"\n\n"
ManifestDemo == <<Hdr("package"), Kv("name", "demo"), Ws>>

ManifestWithSection == <<Hdr("package"), Kv("name", "demo"), Ws,
                         Hdr("greentic"), Kv("other", "1")>>

ManifestEmptySection == <<Hdr("greentic"), Ws, Hdr("package"), Kv("name", "demo")>>

ManifestScalarSection == <<Kv("greentic", "1"), Hdr("package"), Kv("name", "demo")>>

ManifestBadBlock == <<Hdr("package"), Kv("name", "demo"),
                      Hdr("greentic"), Kv("signature", "1")>>

ManifestNotToml == <<B("not toml")>>

FlowOriginal == <<B("start: node")>>

FlowModified == <<B("start: node"), B("\n"), B("modified")>>

\* .packignore of the tests: "ignored/**\n"
IgnoreFile == <<Pat(FALSE, "under", "ignored")>>

PackOf(manifest) ==
  (PACK_TOML :> File(manifest)) @@ (MAIN_FLOW :> File(FlowOriginal))

TestPack ==
  PackOf(ManifestDemo)
    @@ (GIT_CONFIG :> File(<<B("dummy")>>))
    @@ (TARGET_CACHE :> File(<<B("cache")>>))
    @@ (IGNORED_SECRET :> File(<<B("secret")>>))
    @@ (PACKIGNORE :> File(IgnoreFile))

InitialPacks ==
  { PackOf(ManifestDemo),
    PackOf(ManifestWithSection),
    PackOf(ManifestEmptySection),
    PackOf(ManifestScalarSection),
    PackOf(ManifestBadBlock),
    PackOf(ManifestNotToml),
    PackOf(ManifestDemo) @@ (ALIAS_TOML :> Link(PACK_TOML)) }

Seeds == {1, 2}

PrivateKeyPems ==
  {PrivatePem(1), Pem("ED25519 PRIVATE KEY", <<"pkcs8", 2>>), GarbagePem}

KeyIdOverrides == {None, Some("custom-key")}

PublicKeyOptions ==
  {None, Some(GarbagePem)} \cup {Some(PublicPem(PublicKeyOf(k))) : k \in Seeds}

AllVerifyOptions ==
  {VerifyOptions(pk, au) : pk \in PublicKeyOptions, au \in BOOLEAN}

(***************************************************************************)
(* State.                                                                  *)
(*   fs        the pack directory                                          *)
(*   oracle    the Ed25519 table                                           *)
(*   clock     OffsetDateTime::now_utc() of the next call                  *)
(*   last      the last call: its name, arguments and result               *)
(*   signed    history: the last successful sign_pack_dir (the signature   *)
(*             it returned, its key seed, its key-id override, the sorted  *)
(*             entries it hashed and the directory it left), or None       *)
(*   stripped  history: the bytes the first read_manifest_without_signature*)
(*             returned since a field other than the signature changed     *)
(***************************************************************************)
\* inflight: for each writer of the manifest, None or Some(what it read
\* and what it is about to write).
Writers == {"a", "b"}

NoWriters == [w \in Writers |-> None]

Call(op, args, res) == [op |-> op, args |-> args, res |-> res]

Init ==
  /\ fs \in InitialPacks
  /\ oracle = <<>>
  /\ clock = 1
  /\ last = Call("new", <<>>, Ok(<<>>))
  /\ signed = None
  /\ stripped = None
  /\ inflight = NoWriters

SignedRecord(f, r, pem, kid) ==
  [signature |-> r.signature,
   seed |-> load_signing_key(pem)[2],
   key_id |-> kid,
   entries |-> canonical_entries(f, DirectoryOrder(Walked(f)))[2],
   fs |-> r.fs]

\* The signature the library user hands to write_signature.
UnsignedSentinel ==
  PackSignature("none", "unsigned", UNIX_EPOCH,
                DigestString(HexEncode(Sha256(<<>>))), <<>>)

\* Mutant: a placeholder block is written before the pack is signed.
SignPackDir_WritingFirst(pem, kid) ==
  /\ clock <= MaxSignings
  /\ \E r \in {sign_pack_dir(fs, oracle, clock, pem, kid)} :
       /\ last' = Call("sign_pack_dir", <<pem, kid>>,
                       IF IsOk(r) THEN Ok(r[2].signature) ELSE r)
       /\ fs' = IF IsOk(r) THEN r[2].fs
                ELSE IF IsOk(write_signature(fs, UnsignedSentinel, None))
                  THEN write_signature(fs, UnsignedSentinel, None)[2]
                ELSE fs
       /\ oracle' = IF IsOk(r) THEN r[2].oracle ELSE oracle
       /\ signed' = IF IsOk(r) THEN Some(SignedRecord(fs, r[2], pem, kid))
                    ELSE signed
  /\ clock' = clock + 1
  /\ UNCHANGED stripped
  /\ UNCHANGED inflight

\* sign_pack_dir(pack_dir, private_key_pem, key_id)
SignPackDir(pem, kid) ==
  /\ clock <= MaxSignings
  /\ \E r \in {sign_pack_dir(fs, oracle, clock, pem, kid)} :
       /\ last' = Call("sign_pack_dir", <<pem, kid>>,
                       IF IsOk(r) THEN Ok(r[2].signature) ELSE r)
       /\ fs' = IF IsOk(r) THEN r[2].fs ELSE fs
       /\ oracle' = IF IsOk(r) THEN r[2].oracle ELSE oracle
       /\ signed' = IF IsOk(r) THEN Some(SignedRecord(fs, r[2], pem, kid))
                    ELSE signed
  /\ clock' = clock + 1
  /\ UNCHANGED stripped
  /\ UNCHANGED inflight

\* verify_pack_dir(pack_dir, opts)
VerifyPackDir(opts) ==
  /\ last' = Call("verify_pack_dir", opts, verify_pack_dir(fs, oracle, opts))
  /\ UNCHANGED <<fs, oracle, clock, signed, stripped>>
  /\ UNCHANGED inflight

\* The environment writes a file of the pack (write_file of the tests).
WriteFile(path, bytes) ==
  /\ FsRead(fs, path) # Ok(bytes)
  /\ fs' = FsWrite(fs, path, bytes)
  /\ last' = Call("write_file", path, Ok(<<>>))
  /\ UNCHANGED <<oracle, clock, signed, stripped>>
  /\ UNCHANGED inflight

\* remove_signature of the tests: the manifest rewritten without the block.
RemoveSignature ==
  /\ \E path \in {manifest_path(fs)} :
       /\ IsOk(path)
       /\ \E doc \in {load_manifest_value(fs, path[2])} :
            /\ IsOk(doc)
            /\ \E bytes \in {TomlToStringPretty(strip_signature(doc[2]))} :
                 /\ FsRead(fs, path[2]) # Ok(bytes)
                 /\ fs' = FsWrite(fs, path[2], bytes)
  /\ last' = Call("remove_signature", <<>>, Ok(<<>>))
  /\ UNCHANGED <<oracle, clock, signed, stripped>>
  /\ UNCHANGED inflight

\* The environment deletes a file of the pack.
RemoveFile(path) ==
  /\ path \in DOMAIN fs
  /\ fs' = FsRemove(fs, path)
  /\ last' = Call("remove_file", path, Ok(<<>>))
  /\ UNCHANGED <<oracle, clock, signed, stripped>>
  /\ UNCHANGED inflight

Next ==
  \/ \E pem \in PrivateKeyPems, kid \in KeyIdOverrides : SignPackDir(pem, kid)
  \/ \E opts \in AllVerifyOptions : VerifyPackDir(opts)
  \/ RemoveSignature

Spec == Init /\ [][Next]_vars

(***************************************************************************)
(* Tampering: one signing, then the environment edits tracked files,       *)
(* reformats the manifest, or garbles, truncates or removes the stored     *)
(* signature, and the pack is verified.                                    *)
(***************************************************************************)
SUB_FLOW == <<"sub", "main.flow">>

TamperPacks == {PackOf(ManifestDemo), PackOf(ManifestWithSection)}

\* The second override is the fingerprint of the other key pair.
TamperKeyIds == {None, Some(derive_key_id(PublicKeyOf(2)))}

TamperVerifyOptions ==
  {VerifyOptions(Some(PublicPem(PublicKeyOf(k))), FALSE) : k \in Seeds}

\* Lengths the stored sig is cut to, and offsets a character is inserted at.
TruncateLengths == {0, 1, 2, 3, 43, 83, 84, 85}

InsertOffsets == {0, 43, 86}

Mutations ==
  {<<"overwrite">>}
    \cup {<<"truncate", n>> : n \in TruncateLengths}
    \cup {<<"insert", i>> : i \in InsertOffsets}

\* The closure handed to corrupt_signature: "A".repeat(len) as in the
\* tests, a prefix, or a character outside the alphabet inserted.
MutateSig(sig, m) ==
  CASE m[1] = "overwrite" -> [i \in 1..Len(sig) |-> B64_A]
    [] m[1] = "truncate" -> SubSeq(sig, 1, Min(m[2], Len(sig)))
    [] m[1] = "insert" ->
         SubSeq(sig, 1, Min(m[2], Len(sig))) \o <<B64_INVALID>>
           \o SubSeq(sig, Min(m[2], Len(sig)) + 1, Len(sig))

InitTamper ==
  /\ fs \in TamperPacks
  /\ oracle = <<>>
  /\ clock = 1
  /\ last = Call("new", <<>>, Ok(<<>>))
  /\ signed = None
  /\ stripped = None
  /\ inflight = NoWriters

SignOnce(pem, kid) == signed = None /\ SignPackDir(pem, kid)

\* corrupt_signature of the tests, applied to the signature as written by
\* sign_pack_dir: the block is read, its sig mutated, the manifest rewritten.
CorruptSignature(m) ==
  /\ IsSome(signed)
  /\ read_signature(fs) = Ok(Some(signed[2].signature))
  /\ \E path \in {manifest_path(fs)} :
       \E doc \in {load_manifest_value(fs, path[2])} :
         \E mutated \in {[signed[2].signature EXCEPT
                            !.sig = MutateSig(signed[2].signature.sig, m)]} :
           fs' = FsWrite(fs, path[2],
                         TomlToStringPretty(set_signature(doc[2], mutated)[2]))
  /\ last' = Call("corrupt_signature", m, Ok(<<>>))
  /\ UNCHANGED <<oracle, clock, signed, stripped>>
  /\ UNCHANGED inflight

\* An editor rewrites the manifest in the compact layout, values unchanged.
ReformatManifest ==
  /\ \E path \in {manifest_path(fs)} :
       /\ IsOk(path)
       /\ \E doc \in {load_manifest_value(fs, path[2])} :
            /\ IsOk(doc)
            /\ FsRead(fs, path[2]) # Ok(TomlToString(doc[2]))
            /\ fs' = FsWrite(fs, path[2], TomlToString(doc[2]))
  /\ last' = Call("reformat_manifest", <<>>, Ok(<<>>))
  /\ UNCHANGED <<oracle, clock, signed, stripped>>
  /\ UNCHANGED inflight

NextTamper ==
  \/ \E k \in Seeds, kid \in TamperKeyIds : SignOnce(PrivatePem(k), kid)
  \/ \E opts \in TamperVerifyOptions : VerifyPackDir(opts)
  \/ \E bytes \in {FlowOriginal, FlowModified} : WriteFile(MAIN_FLOW, bytes)
  \/ WriteFile(SUB_FLOW, FlowOriginal)
  \/ RemoveFile(SUB_FLOW)
  \/ \E m \in Mutations : CorruptSignature(m)
  \/ ReformatManifest
  \/ RemoveSignature

SpecTamper == InitTamper /\ [][NextTamper]_vars

(***************************************************************************)
(* Ignored paths: the pack is signed as it is, or left unsigned, and then   *)
(* the environment creates, modifies and deletes files that the skip rules *)
(* or .packignore keep out of the walk.                                    *)
(***************************************************************************)
IGNORED_CACHE == <<"ignored", "cache.bin">>

\* A .packignore that also names itself, and one that names the manifest.
IgnoreFileAndItself ==
  <<Pat(FALSE, "name", ".packignore"), Pat(FALSE, "under", "ignored")>>

IgnoreManifest ==
  <<Pat(FALSE, "name", "pack.toml"), Pat(FALSE, "under", "ignored")>>

IgnorePacks ==
  { TestPack,
    [TestPack EXCEPT ![PACKIGNORE] = File(IgnoreFileAndItself)],
    [TestPack EXCEPT ![PACKIGNORE] = File(IgnoreManifest)] }

IgnoreVerifyOptions ==
  {VerifyOptions(Some(PublicPem(PublicKeyOf(1))), allow) :
      allow \in BOOLEAN}

IgnoredWrites ==
  {<<GIT_CONFIG, <<B("dummy")>>>>, <<GIT_CONFIG, <<B("changed")>>>>,
   <<TARGET_CACHE, <<B("cache")>>>>,
   <<IGNORED_SECRET, <<B("secret")>>>>, <<IGNORED_SECRET, <<B("changed")>>>>,
   <<IGNORED_CACHE, <<B("cache")>>>>,
   <<PACKIGNORE, IgnoreFile>>,
   <<PACK_TOML, ManifestNotToml>>}

IgnoredRemovals == {TARGET_CACHE, IGNORED_SECRET, IGNORED_CACHE, PACKIGNORE}

InitIgnore ==
  /\ fs \in IgnorePacks
  /\ oracle = <<>>
  /\ clock = 1
  /\ last = Call("new", <<>>, Ok(<<>>))
  /\ signed = None
  /\ stripped = None
  /\ inflight = NoWriters

\* The path is under .git/ or target/, or a .packignore line matches it.
Ignored(f, path) ==
  \/ \E i \in 1..(Len(path) - 1) : path[i] \in {".git", "target"}
  \/ PathIgnored(IgnoreLines(f), path)

\* The environment writes or deletes a file the walk leaves out.
WriteIgnored(path, bytes) == Ignored(fs, path) /\ WriteFile(path, bytes)

RemoveIgnored(path) == Ignored(fs, path) /\ RemoveFile(path)

SignFirst(pem, kid) == last.op = "new" /\ SignPackDir(pem, kid)

NextIgnore ==
  \/ SignFirst(PrivatePem(1), None)
  \/ \E opts \in IgnoreVerifyOptions : VerifyPackDir(opts)
  \/ \E w \in IgnoredWrites : WriteIgnored(w[1], w[2])
  \/ \E path \in IgnoredRemovals : RemoveIgnored(path)

SpecIgnore == InitIgnore /\ [][NextIgnore]_vars

(***************************************************************************)
(* Walk order: the directory is built file by file in any order, and the   *)
(* walker hands its entries to the canonicalizer in any order.             *)
(***************************************************************************)
CanonPacks ==
  { PackOf(ManifestDemo) @@ (ALIAS_TOML :> Link(PACK_TOML)),
    PackOf(ManifestWithSection) @@ (GIT_CONFIG :> File(<<B("dummy")>>)),
    PackOf(ManifestNotToml) }

CanonWrites ==
  {<<MAIN_FLOW, FlowModified>>, <<SUB_FLOW, FlowOriginal>>,
   <<TARGET_CACHE, <<B("cache")>>>>}

InitCanon ==
  /\ fs \in CanonPacks
  /\ oracle = <<>>
  /\ clock = 1
  /\ last = Call("new", <<>>, Ok(<<>>))
  /\ signed = None
  /\ stripped = None
  /\ inflight = NoWriters

\* canonicalize_pack_dir(pack_dir), the walker yielding `order`.
CanonicalizePackDir(order) ==
  /\ last' = Call("canonicalize_pack_dir", order,
                  canonicalize_in_order(fs, order))
  /\ UNCHANGED <<fs, oracle, clock, signed, stripped>>
  /\ UNCHANGED inflight

NextCanon ==
  \/ \E order \in WalkOrders(fs) : CanonicalizePackDir(order)
  \/ \E w \in CanonWrites : WriteFile(w[1], w[2])
  \/ RemoveFile(SUB_FLOW)

SpecCanon == InitCanon /\ [][NextCanon]_vars

(***************************************************************************)
(* The signature store on its own: the manifest is read with its signature *)
(* stripped, signatures are written and read back, other fields edited.    *)
(***************************************************************************)
GREENTIC_PACK_TOML == <<"greentic-pack.toml">>

StoreManifests ==
  {ManifestDemo, ManifestWithSection, ManifestEmptySection,
   ManifestScalarSection, ManifestBadBlock}

StoreSignatures ==
  { PackSignature("ed25519", "custom-key", 1,
                  DigestString(HexEncode(Sha256(FlowOriginal))),
                  B64Encode(SignatureBytes(1))),
    PackSignature("none", "unsigned", UNIX_EPOCH,
                  DigestString(HexEncode(Sha256(<<>>))), <<>>) }

OutPaths == {None, Some(GREENTIC_PACK_TOML)}

InitStore ==
  /\ fs \in {PACK_TOML :> File(m) : m \in StoreManifests}
  /\ oracle = <<>>
  /\ clock = 1
  /\ last = Call("new", <<>>, Ok(<<>>))
  /\ signed = None
  /\ stripped = None
  /\ inflight = NoWriters

\* read_manifest_without_signature(manifest_path(pack_dir))
ReadManifestWithoutSignature ==
  /\ \E r \in {AndThen(manifest_path(fs),
                       LAMBDA path :
                         read_manifest_without_signature(fs, path))} :
       /\ last' = Call("read_manifest_without_signature", <<>>, r)
       /\ stripped' =
            IF IsOk(r) /\ ~IsSome(stripped)
              THEN Some([bytes |-> r[2],
                         had_signature |-> read_signature(fs) # Ok(None)])
              ELSE stripped
  /\ UNCHANGED <<fs, oracle, clock, signed>>
  /\ UNCHANGED inflight

\* write_signature(pack_dir, signature, out_path)
WriteSignature(signature, out_path) ==
  /\ \E r \in {write_signature(fs, signature, out_path)} :
       /\ last' = Call("write_signature", <<signature, out_path>>,
                       IF IsOk(r) THEN Ok(<<>>) ELSE r)
       /\ fs' = IF IsOk(r) THEN r[2] ELSE fs
  /\ UNCHANGED <<oracle, clock, signed, stripped>>
  /\ UNCHANGED inflight

\* read_signature(pack_dir)
ReadSignature ==
  /\ last' = Call("read_signature", <<>>, read_signature(fs))
  /\ UNCHANGED <<fs, oracle, clock, signed, stripped>>
  /\ UNCHANGED inflight

\* An editor replaces the manifest: fields other than the signature change.
EditManifest(manifest) ==
  /\ FsRead(fs, PACK_TOML) # Ok(manifest)
  /\ fs' = FsWrite(fs, PACK_TOML, manifest)
  /\ last' = Call("edit_manifest", <<>>, Ok(<<>>))
  /\ stripped' = None
  /\ UNCHANGED <<oracle, clock, signed>>
  /\ UNCHANGED inflight

NextStore ==
  \/ ReadManifestWithoutSignature
  \/ \E signature \in StoreSignatures, out_path \in OutPaths :
       WriteSignature(signature, out_path)
  \/ ReadSignature
  \/ \E manifest \in StoreManifests : EditManifest(manifest)

SpecStore == InitStore /\ [][NextStore]_vars

(***************************************************************************)
(* Verification order: one signing, then any field of the stored block is  *)
(* rewritten, a tracked file is edited, and the pack is verified with      *)
(* every kind of key option.                                               *)
(***************************************************************************)
OrderPacks == {PackOf(ManifestDemo)}

\* Values the closure handed to corrupt_signature stores in alg.
AlgValues == {"ED25519", "Ed25519", "none", "rsa"}

FieldMutations ==
  {<<"alg", a>> : a \in AlgValues}
    \cup {<<"overwrite">>, <<"truncate", 1>>, <<"truncate", 84>>}

\* The closure handed to corrupt_signature: it rewrites alg or sig.
MutateField(signature, m) ==
  IF m[1] = "alg" THEN [signature EXCEPT !.alg = m[2]]
  ELSE [signature EXCEPT !.sig = MutateSig(signature.sig, m)]

InitOrder ==
  /\ fs \in OrderPacks
  /\ oracle = <<>>
  /\ clock = 1
  /\ last = Call("new", <<>>, Ok(<<>>))
  /\ signed = None
  /\ stripped = None
  /\ inflight = NoWriters

\* corrupt_signature of the tests, applied to the block the manifest holds.
CorruptStored(m) ==
  /\ \E path \in {manifest_path(fs)} :
       /\ IsOk(path)
       /\ \E stored \in {read_signature(fs)} :
            /\ IsOk(stored)
            /\ IsSome(stored[2])
            /\ \E doc \in {load_manifest_value(fs, path[2])} :
                 \E mutated \in {MutateField(stored[2][2], m)} :
                   /\ mutated # stored[2][2]
                   /\ fs' = FsWrite(fs, path[2],
                               TomlToStringPretty(
                                 set_signature(doc[2], mutated)[2]))
  /\ last' = Call("corrupt_signature", m, Ok(<<>>))
  /\ UNCHANGED <<oracle, clock, signed, stripped>>
  /\ UNCHANGED inflight

NextOrder ==
  \/ \E kid \in KeyIdOverrides : SignOnce(PrivatePem(1), kid)
  \/ \E opts \in AllVerifyOptions : VerifyPackDir(opts)
  \/ \E bytes \in {FlowOriginal, FlowModified} : WriteFile(MAIN_FLOW, bytes)
  \/ \E m \in FieldMutations : CorruptStored(m)
  \/ RemoveSignature

SpecOrder == InitOrder /\ [][NextOrder]_vars

(***************************************************************************)
(* verify_pack step by step.  The position of a call in progress is kept   *)
(* in `last`: its result is <<"Pending", k>> while k checks have passed.   *)
(* The directory is not edited while a call is in progress.                *)
(***************************************************************************)
Pass == <<"Pass">>

\* Mutant: the digest is compared before the algorithm is looked at.
VerifyCheck_DigestBeforeAlg(k, f, orc, opts) ==
  CASE k = 1 ->
         IF IsOk(canonicalize_pack_dir(f)) THEN Pass
         ELSE VerificationError("Manifest", canonicalize_pack_dir(f)[2])
    [] k = 2 ->
         IF ~IsOk(read_signature(f))
           THEN VerificationError("Manifest", read_signature(f)[2])
         ELSE IF IsSome(read_signature(f)[2]) THEN Pass
         ELSE IF opts.allow_unsigned
           THEN Ok(PackSignature("none", "unsigned", UNIX_EPOCH,
                     DigestString(canonicalize_pack_dir(f)[2].digest_hex),
                     <<>>))
         ELSE VerificationError("MissingSignature", <<>>)
    [] k = 4 ->
         IF ToAsciiLowercase(read_signature(f)[2][2].alg) = "ed25519"
           THEN Pass
         ELSE VerificationError("UnsupportedAlgorithm",
                                read_signature(f)[2][2].alg)
    [] k = 3 ->
         IF read_signature(f)[2][2].digest
              = DigestString(canonicalize_pack_dir(f)[2].digest_hex)
           THEN Pass
         ELSE VerificationError("DigestMismatch",
                <<read_signature(f)[2][2].digest,
                  DigestString(canonicalize_pack_dir(f)[2].digest_hex)>>)
    [] k = 5 ->
         IF IsSome(opts.public_key_pem) THEN Pass
         ELSE VerificationError("KeyNotFound",
                                read_signature(f)[2][2].key_id)
    [] k = 6 ->
         IF IsOk(from_public_key_pem(opts.public_key_pem[2])) THEN Pass
         ELSE VerificationError("PublicKeySpki", <<>>)
    [] k = 7 ->
         IF derive_key_id(from_public_key_pem(opts.public_key_pem[2])[2])
              = read_signature(f)[2][2].key_id
           THEN Pass
         ELSE VerificationError("KeyIdMismatch",
                <<read_signature(f)[2][2].key_id,
                  derive_key_id(
                    from_public_key_pem(opts.public_key_pem[2])[2])>>)
    [] k = 8 ->
         IF IsOk(B64Decode(read_signature(f)[2][2].sig)) THEN Pass
         ELSE VerificationError("SignatureDecode",
                                B64Decode(read_signature(f)[2][2].sig)[2])
    [] k = 9 ->
         IF Len(B64Decode(read_signature(f)[2][2].sig)[2])
              = SIGNATURE_BYTE_SIZE
           THEN Pass
         ELSE VerificationError("SignatureLength",
                Len(B64Decode(read_signature(f)[2][2].sig)[2]))
    [] k = 10 ->
         IF IsOk(signature_from_slice(
                   B64Decode(read_signature(f)[2][2].sig)[2]))
           THEN Pass
         ELSE VerificationError("SignatureMalformed", <<>>)
    [] k = 11 ->
         IF Ed25519Verify(orc,
              from_public_key_pem(opts.public_key_pem[2])[2],
              canonicalize_pack_dir(f)[2].bytes,
              B64Decode(read_signature(f)[2][2].sig)[2])
           THEN Ok(read_signature(f)[2][2])
         ELSE VerificationError("InvalidSignature",
                                read_signature(f)[2][2].key_id)

\* The k-th check of verify_pack (verify.rs 51, 53-67, 69-73, 75-81, 83-87,
\* 89-90, 91-97, 99, 100-102, 104-105, 107-113): Pass, or the outcome the
\* call returns there.
VerifyCheck(k, f, orc, opts) ==
  CASE k = 1 ->
         IF IsOk(canonicalize_pack_dir(f)) THEN Pass
         ELSE VerificationError("Manifest", canonicalize_pack_dir(f)[2])
    [] k = 2 ->
         IF ~IsOk(read_signature(f))
           THEN VerificationError("Manifest", read_signature(f)[2])
         ELSE IF IsSome(read_signature(f)[2]) THEN Pass
         ELSE IF opts.allow_unsigned
           THEN Ok(PackSignature("none", "unsigned", UNIX_EPOCH,
                     DigestString(canonicalize_pack_dir(f)[2].digest_hex),
                     <<>>))
         ELSE VerificationError("MissingSignature", <<>>)
    [] k = 3 ->
         IF ToAsciiLowercase(read_signature(f)[2][2].alg) = "ed25519"
           THEN Pass
         ELSE VerificationError("UnsupportedAlgorithm",
                                read_signature(f)[2][2].alg)
    [] k = 4 ->
         IF read_signature(f)[2][2].digest
              = DigestString(canonicalize_pack_dir(f)[2].digest_hex)
           THEN Pass
         ELSE VerificationError("DigestMismatch",
                <<read_signature(f)[2][2].digest,
                  DigestString(canonicalize_pack_dir(f)[2].digest_hex)>>)
    [] k = 5 ->
         IF IsSome(opts.public_key_pem) THEN Pass
         ELSE VerificationError("KeyNotFound",
                                read_signature(f)[2][2].key_id)
    [] k = 6 ->
         IF IsOk(from_public_key_pem(opts.public_key_pem[2])) THEN Pass
         ELSE VerificationError("PublicKeySpki", <<>>)
    [] k = 7 ->
         IF derive_key_id(from_public_key_pem(opts.public_key_pem[2])[2])
              = read_signature(f)[2][2].key_id
           THEN Pass
         ELSE VerificationError("KeyIdMismatch",
                <<read_signature(f)[2][2].key_id,
                  derive_key_id(
                    from_public_key_pem(opts.public_key_pem[2])[2])>>)
    [] k = 8 ->
         IF IsOk(B64Decode(read_signature(f)[2][2].sig)) THEN Pass
         ELSE VerificationError("SignatureDecode",
                                B64Decode(read_signature(f)[2][2].sig)[2])
    [] k = 9 ->
         IF Len(B64Decode(read_signature(f)[2][2].sig)[2])
              = SIGNATURE_BYTE_SIZE
           THEN Pass
         ELSE VerificationError("SignatureLength",
                Len(B64Decode(read_signature(f)[2][2].sig)[2]))
    [] k = 10 ->
         IF IsOk(signature_from_slice(
                   B64Decode(read_signature(f)[2][2].sig)[2]))
           THEN Pass
         ELSE VerificationError("SignatureMalformed", <<>>)
    [] k = 11 ->
         IF Ed25519Verify(orc,
              from_public_key_pem(opts.public_key_pem[2])[2],
              canonicalize_pack_dir(f)[2].bytes,
              B64Decode(read_signature(f)[2][2].sig)[2])
           THEN Ok(read_signature(f)[2][2])
         ELSE VerificationError("InvalidSignature",
                                read_signature(f)[2][2].key_id)

Pending(call) == call.op = "verify_pack" /\ call.res[1] = "Pending"

Idle == ~Pending(last)

\* verify_pack is entered.
VerifyPackBegin(opts) ==
  /\ Idle
  /\ last' = Call("verify_pack", opts, <<"Pending", 0>>)
  /\ UNCHANGED <<fs, oracle, clock, signed, stripped>>
  /\ UNCHANGED inflight

\* The call in progress makes its next check.
VerifyPackStep ==
  /\ Pending(last)
  /\ \E outcome \in {VerifyCheck(last.res[2] + 1, fs, oracle, last.args)} :
       last' = [last EXCEPT !.res = IF outcome = Pass
                                      THEN <<"Pending", last.res[2] + 1>>
                                      ELSE outcome]
  /\ UNCHANGED <<fs, oracle, clock, signed, stripped>>
  /\ UNCHANGED inflight

\* Manifests that fail the first or the second check are verified too.
StepPacks ==
  OrderPacks \cup {PackOf(ManifestNotToml), PackOf(ManifestBadBlock),
                   PackOf(ManifestScalarSection)}

InitSteps ==
  /\ fs \in StepPacks
  /\ oracle = <<>>
  /\ clock = 1
  /\ last = Call("new", <<>>, Ok(<<>>))
  /\ signed = None
  /\ stripped = None
  /\ inflight = NoWriters

NextSteps ==
  \/ Idle /\ SignOnce(PrivatePem(1), None)
  \/ \E opts \in AllVerifyOptions : VerifyPackBegin(opts)
  \/ VerifyPackStep
  \/ \E bytes \in {FlowOriginal, FlowModified} :
       Idle /\ WriteFile(MAIN_FLOW, bytes)
  \/ \E m \in FieldMutations : Idle /\ CorruptStored(m)
  \/ Idle /\ RemoveSignature

SpecSteps == InitSteps /\ [][NextSteps]_vars

(***************************************************************************)
(* Command line (cli/sign.rs, cli/verify.rs).  The pack path resolves to   *)
(* the directory f; a key file argument is the result of reading it,       *)
(* Ok(text) or Err("ReadKey").                                             *)
(***************************************************************************)
\* sign::handle: Ok([signature, fs, oracle]) or the error (nothing written).
cli_sign(f, orc, now, key_file, key_id, out) ==
  AndThen(key_file, LAMBDA private_key :
    AndThen(IF IsSome(out) THEN Ok(out[2]) ELSE manifest_path(f),
            LAMBDA target_manifest_path :
      AndThen(sign_pack(f, orc, now, private_key, key_id), LAMBDA outcome :
        AndThen(write_signature(f, outcome.signature, out), LAMBDA written :
          Ok([signature |-> outcome.signature,
              fs |-> written,
              oracle |-> outcome.oracle])))))

\* verify::handle: pub_file is None or Some(the result of reading the file).
cli_verify(f, orc, pub_file, allow_unsigned) ==
  IF IsSome(pub_file) /\ ~IsOk(pub_file[2]) THEN pub_file[2]
  ELSE verify_pack_dir(f, orc,
         VerifyOptions(IF IsSome(pub_file) THEN Some(pub_file[2][2])
                       ELSE None,
                       allow_unsigned))

\* A pack directory in which no manifest has been written yet.
PackWithoutManifest == MAIN_FLOW :> File(FlowOriginal)

CliPacks ==
  { PackWithoutManifest,
    PackOf(ManifestDemo),
    PackOf(ManifestDemo) @@ (ALIAS_TOML :> Link(PACK_TOML)) }

KeyFiles == {Ok(PrivatePem(1)), Ok(GarbagePem), Err("ReadKey")}

PubFiles ==
  {None, Some(Ok(PublicPem(PublicKeyOf(1)))), Some(Ok(GarbagePem)),
   Some(Err("ReadKey"))}

\* --out: absent, a new file beside the manifest, or alias.toml.
CliOutPaths == {None, Some(GREENTIC_PACK_TOML), Some(ALIAS_TOML)}

InitCli ==
  /\ fs \in CliPacks
  /\ oracle = <<>>
  /\ clock = 1
  /\ last = Call("new", <<>>, Ok(<<>>))
  /\ signed = None
  /\ stripped = None
  /\ inflight = NoWriters

\* packc sign --pack f --key key_file [--key-id key_id] [--out out]
CliSign(key_file, key_id, out) ==
  /\ clock <= MaxSignings
  /\ \E r \in {cli_sign(fs, oracle, clock, key_file, key_id, out)} :
       /\ last' = Call("sign", <<key_file, key_id, out>>,
                       IF IsOk(r) THEN Ok(r[2].signature) ELSE r)
       /\ fs' = IF IsOk(r) THEN r[2].fs ELSE fs
       /\ oracle' = IF IsOk(r) THEN r[2].oracle ELSE oracle
  /\ clock' = clock + 1
  /\ UNCHANGED <<signed, stripped>>
  /\ UNCHANGED inflight

\* packc verify --pack f [--pub pub_file] [--allow-unsigned]
CliVerify(pub_file, allow_unsigned) ==
  /\ last' = Call("verify", <<pub_file, allow_unsigned>>,
                  cli_verify(fs, oracle, pub_file, allow_unsigned))
  /\ UNCHANGED <<fs, oracle, clock, signed, stripped>>
  /\ UNCHANGED inflight

\* Mutant: sign_pack persists the signature it produced.
SignPack_Persisting(pem, kid) ==
  /\ clock <= MaxSignings
  /\ \E r \in {sign_pack_dir(fs, oracle, clock, pem, kid)} :
       /\ last' = Call("sign_pack", <<pem, kid>>,
                       IF IsOk(r) THEN Ok(r[2].signature) ELSE r)
       /\ fs' = IF IsOk(r) THEN r[2].fs ELSE fs
       /\ oracle' = IF IsOk(r) THEN r[2].oracle ELSE oracle
  /\ clock' = clock + 1
  /\ UNCHANGED <<signed, stripped>>
  /\ UNCHANGED inflight

\* signer::sign_pack(pack_dir, private_key_pem, key_id)
SignPack(pem, kid) ==
  /\ clock <= MaxSignings
  /\ \E r \in {sign_pack(fs, oracle, clock, pem, kid)} :
       /\ last' = Call("sign_pack", <<pem, kid>>,
                       IF IsOk(r) THEN Ok(r[2].signature) ELSE r)
       /\ oracle' = IF IsOk(r) THEN r[2].oracle ELSE oracle
  /\ clock' = clock + 1
  /\ UNCHANGED <<fs, signed, stripped>>
  /\ UNCHANGED inflight

NextCli ==
  \/ \E key_file \in KeyFiles, out \in CliOutPaths :
       CliSign(key_file, None, out)
  \/ \E pub_file \in PubFiles, allow_unsigned \in BOOLEAN :
       CliVerify(pub_file, allow_unsigned)
  \/ \E pem \in {PrivatePem(1), GarbagePem} : SignPack(pem, None)
  \/ VerifyPackDir(VerifyOptions(Some(PublicPem(PublicKeyOf(1))), FALSE))
  \/ CanonicalizePackDir(DirectoryOrder(Walked(fs)))
  \/ \E out \in CliOutPaths : WriteSignature(UnsignedSentinel, out)

SpecCli == InitCli /\ [][NextCli]_vars

(***************************************************************************)
(* The walk: files are created and deleted at hidden, built-in skipped,    *)
(* ignored and ordinary paths, .packignore and .gitignore are rewritten,   *)
(* and the directory is canonicalized.                                     *)
(***************************************************************************)
FLOWS_DS_STORE == <<"flows", ".DS_Store">>

HIDDEN_ENV == <<".env">>

\* .packignore files: patterns with and without negation.
IgnoreNegatingBuiltIns ==
  <<Pat(FALSE, "under", "ignored"),
    Pat(TRUE, "under", "target"), Pat(TRUE, "name", "target"),
    Pat(TRUE, "under", ".git"), Pat(TRUE, "name", ".git"),
    Pat(TRUE, "name", ".DS_Store"), Pat(TRUE, "name", "cache.bin"),
    Pat(TRUE, "name", "config")>>

IgnoreReincluding ==
  <<Pat(FALSE, "under", "ignored"), Pat(TRUE, "name", "secret.txt")>>

IgnoreFlow == <<Pat(FALSE, "name", "main.flow")>>

\* .gitignore of a repository: hidden files and build output.
GitIgnoreFile ==
  <<Pat(FALSE, "name", ".env"), Pat(FALSE, "name", "main.flow"),
    Pat(FALSE, "under", "ignored")>>

WalkWrites ==
  {<<GIT_CONFIG, <<B("dummy")>>>>,
   <<TARGET_CACHE, <<B("cache")>>>>,
   <<FLOWS_DS_STORE, <<B("finder")>>>>,
   <<HIDDEN_ENV, <<B("KEY=1")>>>>,
   <<IGNORED_SECRET, <<B("secret")>>>>,
   <<GITIGNORE, GitIgnoreFile>>,
   <<PACKIGNORE, IgnoreFile>>,
   <<PACKIGNORE, IgnoreNegatingBuiltIns>>,
   <<PACKIGNORE, IgnoreReincluding>>,
   <<PACKIGNORE, IgnoreFlow>>}

WalkRemovals ==
  {GIT_CONFIG, TARGET_CACHE, FLOWS_DS_STORE, HIDDEN_ENV, IGNORED_SECRET,
   GITIGNORE, PACKIGNORE}

InitWalk ==
  /\ fs = PackOf(ManifestDemo)
  /\ oracle = <<>>
  /\ clock = 1
  /\ last = Call("new", <<>>, Ok(<<>>))
  /\ signed = None
  /\ stripped = None
  /\ inflight = NoWriters

NextWalk ==
  \/ CanonicalizePackDir(DirectoryOrder(Walked(fs)))
  \/ \E w \in WalkWrites : WriteFile(w[1], w[2])
  \/ \E path \in WalkRemovals : RemoveFile(path)

SpecWalk == InitWalk /\ [][NextWalk]_vars

(***************************************************************************)
(* Failing signings: the environment plants what makes a step of signing   *)
(* fail (a name that is not UTF-8, a dangling link, a nested manifest that *)
(* is not TOML, a manifest that is not TOML), before or after a signing    *)
(* that succeeded, and the pack is signed with good and bad keys.          *)
(***************************************************************************)
BAD_NAME == <<NON_UTF8>>

NESTED_MANIFEST == <<"sub", "pack.toml">>

MISSING_TARGET == <<"sub", "main.flow">>

FaultWrites ==
  {<<BAD_NAME, <<B("x")>>>>,
   <<NESTED_MANIFEST, ManifestNotToml>>,
   <<PACK_TOML, ManifestNotToml>>,
   <<PACK_TOML, ManifestScalarSection>>}

FaultRemovals == {BAD_NAME, NESTED_MANIFEST, ALIAS_TOML}

InitFail ==
  /\ fs = PackOf(ManifestDemo)
  /\ oracle = <<>>
  /\ clock = 1
  /\ last = Call("new", <<>>, Ok(<<>>))
  /\ signed = None
  /\ stripped = None
  /\ inflight = NoWriters

\* The environment creates a symbolic link.
MakeLink(path, target) ==
  /\ path \notin DOMAIN fs
  /\ fs' = [x \in DOMAIN fs \cup {path} |->
              IF x = path THEN Link(target) ELSE fs[x]]
  /\ last' = Call("symlink", <<path, target>>, Ok(<<>>))
  /\ UNCHANGED <<oracle, clock, signed, stripped>>
  /\ UNCHANGED inflight

NextFail ==
  \/ \E pem \in {PrivatePem(1), GarbagePem} : SignPackDir(pem, None)
  \/ \E key_file \in KeyFiles, out \in {None, Some(GREENTIC_PACK_TOML)} :
       CliSign(key_file, None, out)
  \/ \E w \in FaultWrites : WriteFile(w[1], w[2])
  \/ \E path \in FaultRemovals : RemoveFile(path)
  \/ MakeLink(ALIAS_TOML, MISSING_TARGET)

SpecFail == InitFail /\ [][NextFail]_vars

(***************************************************************************)
(* Concurrent writers.  write_signature reads the manifest               *)
(* (manifest.rs 211-212) and writes it back (213-224) with no lock in      *)
(* between; an editor of another field does the same.  Each writer is at   *)
(* most in one such call; what it read is kept in inflight until it        *)
(* writes, and stays there, marked done, until its next call.              *)
(***************************************************************************)
\* What a writer does: write_signature(signature), or the package renamed.
Jobs ==
  {<<"sign", signature>> : signature \in StoreSignatures}
    \cup {<<"edit", "renamed">>}

RacePacks == {PACK_TOML :> File(m) : m \in {ManifestDemo, ManifestWithSection}}

InitRace ==
  /\ fs \in RacePacks
  /\ oracle = <<>>
  /\ clock = 1
  /\ last = Call("new", <<>>, Ok(<<>>))
  /\ signed = None
  /\ stripped = None
  /\ inflight = NoWriters

Reading(w) == IsSome(inflight[w]) /\ ~inflight[w][2].done

\* The first half of the call: the manifest is located and parsed.
BeginWrite(w, job) ==
  /\ ~Reading(w)
  /\ \E r \in {AndThen(manifest_path(fs), LAMBDA mp :
                 AndThen(load_manifest_value(fs, mp), LAMBDA doc :
                   Ok([job |-> job, path |-> mp, doc |-> doc,
                       done |-> FALSE])))} :
       /\ inflight' = [inflight EXCEPT ![w] = IF IsOk(r) THEN Some(r[2])
                                               ELSE None]
       /\ last' = Call("read_manifest", <<w, job>>,
                       IF IsOk(r) THEN Ok(<<>>) ELSE r)
  /\ UNCHANGED <<fs, oracle, clock, signed, stripped>>

\* The document the writer hands to the serializer.
Applied(job, doc) ==
  IF job[1] = "sign" THEN set_signature(doc, job[2])
  ELSE Ok([doc EXCEPT !.package = PackageTable(Scalar(job[2]))])

\* Mutant: the manifest is read again at the moment it is written.
FinishWrite_Rereading(w) ==
  /\ Reading(w)
  /\ \E r \in {AndThen(load_manifest_value(fs, inflight[w][2].path),
                       LAMBDA doc : Applied(inflight[w][2].job, doc))} :
       /\ fs' = IF IsOk(r)
                  THEN FsWrite(fs, inflight[w][2].path,
                               TomlToStringPretty(r[2]))
                  ELSE fs
       /\ last' = Call("write_manifest", <<w, inflight[w][2].job>>,
                       IF IsOk(r) THEN Ok(<<>>) ELSE r)
  /\ inflight' = [inflight EXCEPT ![w] =
                    Some([inflight[w][2] EXCEPT !.done = TRUE])]
  /\ UNCHANGED <<oracle, clock, signed, stripped>>

\* The second half: the change is applied to what was read, and written.
FinishWrite(w) ==
  /\ Reading(w)
  /\ \E r \in {Applied(inflight[w][2].job, inflight[w][2].doc)} :
       /\ fs' = IF IsOk(r)
                  THEN FsWrite(fs, inflight[w][2].path,
                               TomlToStringPretty(r[2]))
                  ELSE fs
       /\ last' = Call("write_manifest", <<w, inflight[w][2].job>>,
                       IF IsOk(r) THEN Ok(<<>>) ELSE r)
  /\ inflight' = [inflight EXCEPT ![w] =
                    Some([inflight[w][2] EXCEPT !.done = TRUE])]
  /\ UNCHANGED <<oracle, clock, signed, stripped>>

NextRace ==
  \/ \E w \in Writers, job \in Jobs : BeginWrite(w, job)
  \/ \E w \in Writers : FinishWrite(w)

SpecRace == InitRace /\ [][NextRace]_vars


(***************************************************************************)
(* The canonical buffer byte by byte (canon.rs 82-89).  A byte is its      *)
(* value 0..255, a relative path and a content are sequences of bytes, an  *)
(* entry is a CanonicalEntry.  Paths hold no NUL byte: they are text       *)
(* joined from file names (normalize_path), and a file name has none.      *)
(***************************************************************************)
\* "PATH\0" and "\nLEN\0" of the format string, and its final "\n".
PATH_TAG == <<80, 65, 84, 72, 0>>

LEN_TAG == <<10, 76, 69, 78, 0>>

NEWLINE == <<10>>

\* format!("{}", n): the decimal digits of a length, as ASCII.
RECURSIVE DecimalBytes(_)
DecimalBytes(n) ==
  IF n < 10 THEN <<48 + n>>
  ELSE DecimalBytes(n \div 10) \o <<48 + (n % 10)>>

CanonicalEntry(rel_path, contents) ==
  [rel_path |-> rel_path, contents |-> contents]

\* Mutant: the header does not record the length of the contents.
header_WithoutLength(entry) ==
  PATH_TAG \o entry.rel_path \o LEN_TAG \o NEWLINE

\* format!("PATH\0{}\nLEN\0{}\n", entry.rel_path, entry.contents.len())
header(entry) ==
  PATH_TAG \o entry.rel_path \o LEN_TAG
    \o DecimalBytes(Len(entry.contents)) \o NEWLINE

\* a.cmp(&b) on two strings: byte-wise, a proper prefix first.
RECURSIVE BytesLess(_, _)
BytesLess(a, b) ==
  IF b = <<>> THEN FALSE
  ELSE IF a = <<>> THEN TRUE
  ELSE IF Head(a) = Head(b) THEN BytesLess(Tail(a), Tail(b))
  ELSE Head(a) < Head(b)

RECURSIVE InsertByRelPath(_, _)
InsertByRelPath(sorted, e) ==
  IF sorted = <<>> THEN <<e>>
  ELSE IF BytesLess(e.rel_path, Head(sorted).rel_path) THEN <<e>> \o sorted
  ELSE <<Head(sorted)>> \o InsertByRelPath(Tail(sorted), e)

\* entries.sort_by(|a, b| a.rel_path.cmp(&b.rel_path))
RECURSIVE SortByRelPath(_)
SortByRelPath(entries) ==
  IF entries = <<>> THEN <<>>
  ELSE InsertByRelPath(SortByRelPath(SubSeq(entries, 1, Len(entries) - 1)),
                       entries[Len(entries)])

\* The loop of canon.rs 85-89: header and contents of each entry appended.
RECURSIVE ExtendBuffer(_)
ExtendBuffer(entries) ==
  IF entries = <<>> THEN <<>>
  ELSE header(Head(entries)) \o Head(entries).contents
         \o ExtendBuffer(Tail(entries))

\* The buffer of the entries collected in the order `entries`.
canonical_buffer(entries) == ExtendBuffer(SortByRelPath(entries))

\* Paths: "a", "a\nLEN" and "b".  Contents: nothing, "x", the header of an
\* empty file "b", and that header without its length digit.
FramePaths == {<<97>>, <<97, 10, 76, 69, 78>>, <<98>>}

FrameContents ==
  {<<>>, <<120>>, PATH_TAG \o <<98>> \o LEN_TAG \o <<48>> \o NEWLINE,
   PATH_TAG \o <<98>> \o LEN_TAG \o NEWLINE}

FrameEntries ==
  {CanonicalEntry(p, c) : p \in FramePaths, c \in FrameContents}

\* The entries of a directory in the orders a walk can yield them: every
\* path at most once.
CollectedEntries ==
  {entries \in UNION {[1..n -> FrameEntries] : n \in 0..Cardinality(FramePaths)} :
     \A i, j \in DOMAIN entries :
       i # j => entries[i].rel_path # entries[j].rel_path}

InitFrame ==
  /\ fs \in {PackOf(ManifestDemo)}
  /\ oracle = <<>>
  /\ clock = 1
  /\ last = Call("new", <<>>, Ok(<<>>))
  /\ signed = None
  /\ stripped = None
  /\ inflight = NoWriters

\* The buffer canonicalize_pack_dir builds from the collected entries.
BuildCanonicalBuffer(entries) ==
  /\ last' = Call("canonical_buffer", entries, canonical_buffer(entries))
  /\ UNCHANGED <<fs, oracle, clock, signed, stripped>>
  /\ UNCHANGED inflight

NextFrame == \E entries \in CollectedEntries : BuildCanonicalBuffer(entries)

SpecFrame == InitFrame /\ [][NextFrame]_vars


(***************************************************************************)
(* The ignore file edited after signing.  .packignore is rewritten with    *)
(* pattern lists that hide a tracked file, that name .packignore itself,   *)
(* or both; a tracked file is edited; the pack is signed once and          *)
(* verified with the signing key.                                          *)
(***************************************************************************)
IgnoreHidingFlow == IgnoreFile \o <<Pat(FALSE, "name", "main.flow")>>

IgnoreItselfAndCache ==
  IgnoreFileAndItself \o <<Pat(FALSE, "name", "cache.bin")>>

IgnoreItselfHidingFlow ==
  IgnoreFileAndItself \o <<Pat(FALSE, "name", "main.flow")>>

IgnoreFileContents ==
  {IgnoreFile, IgnoreHidingFlow, IgnoreFileAndItself, IgnoreItselfAndCache,
   IgnoreItselfHidingFlow}

IgnoreFilePacks ==
  {TestPack, [TestPack EXCEPT ![PACKIGNORE] = File(IgnoreFileAndItself)]}

InitIgnoreFile ==
  /\ fs \in IgnoreFilePacks
  /\ oracle = <<>>
  /\ clock = 1
  /\ last = Call("new", <<>>, Ok(<<>>))
  /\ signed = None
  /\ stripped = None
  /\ inflight = NoWriters

NextIgnoreFile ==
  \/ SignOnce(PrivatePem(1), None)
  \/ \E opts \in IgnoreVerifyOptions : VerifyPackDir(opts)
  \/ \E lines \in IgnoreFileContents : WriteFile(PACKIGNORE, lines)
  \/ \E bytes \in {FlowOriginal, FlowModified} : WriteFile(MAIN_FLOW, bytes)

SpecIgnoreFile == InitIgnoreFile /\ [][NextIgnoreFile]_vars

(***************************************************************************)
(* Properties.                                                             *)
(***************************************************************************)
\* The public key PEM that belongs to the key of the last signing.
SignerPublicPem == PublicPem(PublicKeyOf(signed[2].seed))

\* The last call verified, with the signer's key and unsigned packs
\* refused, the directory exactly as the last sign_pack_dir left it.
VerifiedAfterSigning ==
  /\ last.op = "verify_pack_dir"
  /\ IsSome(signed)
  /\ fs = signed[2].fs
  /\ last.args = VerifyOptions(Some(SignerPublicPem), FALSE)

\* C1: sign_pack_dir(D, priv, no key-id override) followed by
\* verify_pack_dir(D, {matching public key, allow_unsigned = false})
\* succeeds and returns the sig and the digest the signing call returned.
C1_RoundTrip ==
  (VerifiedAfterSigning /\ ~IsSome(signed[2].key_id))
    => /\ IsOk(last.res)
       /\ last.res[2].sig = signed[2].signature.sig
       /\ last.res[2].digest = signed[2].signature.digest

\* The round trip of a pack in which no symbolic link names the manifest.
NoLinks == \A p \in DOMAIN fs : fs[p][1] = "file"

C1_RoundTripWithoutLinks == NoLinks => C1_RoundTrip

C1_RoundTripDone ==
  VerifiedAfterSigning /\ ~IsSome(signed[2].key_id) /\ IsOk(last.res)

\* The step is a sign_pack_dir that succeeded on the directory the last
\* successful sign_pack_dir left, with the same key.
Resigned ==
  /\ last'.op = "sign_pack_dir"
  /\ clock' = clock + 1
  /\ IsOk(last'.res)
  /\ IsSome(signed)
  /\ fs = signed[2].fs
  /\ load_signing_key(last'.args[1]) = Ok(signed[2].seed)

\* C4: signing the same unchanged pack directory twice with the same key,
\* the first signature already embedded in the manifest, yields the same
\* sig and the same digest in both returned signatures.
C4_ResignDeterministic ==
  [][Resigned => /\ last'.res[2].sig = signed[2].signature.sig
                 /\ last'.res[2].digest = signed[2].signature.digest]_vars

C4_ResignWithoutLinks ==
  [][(Resigned /\ NoLinks)
       => /\ last'.res[2].sig = signed[2].signature.sig
          /\ last'.res[2].digest = signed[2].signature.digest]_vars

\* The manifest exists, parses and holds no signature block, and the pack
\* canonicalizes.
Unsigned ==
  /\ IsOk(manifest_path(fs))
  /\ read_signature(fs) = Ok(None)
  /\ IsOk(canonicalize_pack_dir(fs))

\* C5: on a pack whose manifest has no signature block, verify_pack with
\* allow_unsigned = true returns the sentinel signature (alg "none", key_id
\* "unsigned", created_at the Unix epoch, sig "", digest "sha256:" + the
\* canonical digest) whatever public key is supplied, and with
\* allow_unsigned = false it fails with MissingSignature.
C5_UnsignedHandling ==
  (last.op = "verify_pack_dir" /\ Unsigned)
    => IF last.args.allow_unsigned
         THEN /\ IsOk(last.res)
              /\ last.res[2].alg = "none"
              /\ last.res[2].key_id = "unsigned"
              /\ last.res[2].created_at = UNIX_EPOCH
              /\ last.res[2].sig = <<>>
              /\ last.res[2].digest =
                   <<"sha256:", canonicalize_pack_dir(fs)[2].digest_hex>>
         ELSE last.res = VerificationError("MissingSignature", <<>>)

C5_UnsignedAccepted ==
  /\ last.op = "verify_pack_dir"
  /\ Unsigned
  /\ last.args.allow_unsigned
  /\ IsSome(last.args.public_key_pem)
  /\ IsOk(last.res)

\* The call failed with the error `kind`.
Fails(res, kind) == res[1] = "Err" /\ res[2] = kind

\* The files the canonicalizer hashes.
TrackedPaths(f) == {p \in Walked(f) : ~should_skip(p)}

\* The sorted entries canonicalize_pack_dir would hash now.
CurrentEntries == canonical_entries(fs, DirectoryOrder(Walked(fs)))

\* The last call verified, with the signer's key, a pack signed without a
\* key-id override.
VerifiedWithSignerKey ==
  /\ last.op = "verify_pack_dir"
  /\ IsSome(signed)
  /\ ~IsSome(signed[2].key_id)
  /\ last.args.public_key_pem = Some(SignerPublicPem)

\* C2 as stated: verification with the correct key fails with
\* DigestMismatch whenever the content of any tracked file differs from its
\* content when the pack was signed, and succeeds when every tracked file
\* has that content again.
C2_TamperDetectionAsStated ==
  VerifiedWithSignerKey
    => IF \E p \in TrackedPaths(fs) \cup TrackedPaths(signed[2].fs) :
            FsRead(fs, p) # FsRead(signed[2].fs, p)
         THEN Fails(last.res, "DigestMismatch")
         ELSE IsOk(last.res)

\* C2: while the manifest carries the signature block sign_pack_dir wrote,
\* verification with the correct key fails with DigestMismatch whenever the
\* canonical entries (path and canonical content of every tracked file)
\* differ from those hashed at signing time, and returns the stored
\* signature whenever they are the same again; the outcome depends on the
\* current directory state only.
C2_TamperDetection ==
  (/\ VerifiedWithSignerKey
   /\ read_signature(fs) = Ok(Some(signed[2].signature))
   /\ IsOk(CurrentEntries))
    => IF CurrentEntries[2] # signed[2].entries
         THEN Fails(last.res, "DigestMismatch")
         ELSE last.res = Ok(signed[2].signature)

C2_TamperDetected ==
  /\ VerifiedWithSignerKey
  /\ read_signature(fs) = Ok(Some(signed[2].signature))
  /\ IsOk(CurrentEntries)
  /\ CurrentEntries[2] # signed[2].entries
  /\ Fails(last.res, "DigestMismatch")

C2_ReformattedVerifies ==
  /\ VerifiedWithSignerKey
  /\ fs # signed[2].fs
  /\ last.res = Ok(signed[2].signature)

\* text is a proper prefix of whole.
IsPrefix(text, whole) ==
  Len(text) < Len(whole) /\ text = SubSeq(whole, 1, Len(text))

InAlphabet(text) == \A i \in DOMAIN text : text[i] < B64_INVALID

\* Unpadded base64: alphabet characters only, the length not 1 modulo 4,
\* and no bit of the last character left over.
ValidUnpadded(text) ==
  /\ InAlphabet(text)
  /\ Len(text) % 4 # 1
  /\ (Len(text) % 4 = 2 => text[Len(text)] % 16 = 0)
  /\ (Len(text) % 4 = 3 => text[Len(text)] % 4 = 0)

\* The last call verified, with the signer's key, a pack hashed as at
\* signing time whose stored block is the written one but for its sig.
VerifiedGarbled ==
  /\ VerifiedWithSignerKey
  /\ IsOk(read_signature(fs))
  /\ IsSome(read_signature(fs)[2])
  /\ [read_signature(fs)[2][2] EXCEPT !.sig = signed[2].signature.sig]
       = signed[2].signature
  /\ CurrentEntries = Ok(signed[2].entries)

StoredSig == read_signature(fs)[2][2].sig

\* C6 as stated: an equal-length but incorrect base64 sig fails with
\* InvalidSignature, a truncated sig with SignatureLength, a sig with a
\* non-base64 character with SignatureDecode.
C6_GarbledSignatureAsStated ==
  VerifiedGarbled
    => /\ (/\ Len(StoredSig) = Len(signed[2].signature.sig)
           /\ StoredSig # signed[2].signature.sig
           /\ ValidUnpadded(StoredSig))
            => Fails(last.res, "InvalidSignature")
       /\ IsPrefix(StoredSig, signed[2].signature.sig)
            => Fails(last.res, "SignatureLength")
       /\ ~InAlphabet(StoredSig) => Fails(last.res, "SignatureDecode")

\* C6: an equal-length but incorrect base64 sig fails with
\* InvalidSignature; a truncated sig fails with SignatureLength when what
\* is left is still unpadded base64 and with SignatureDecode when it is not;
\* a sig with a non-base64 character fails with SignatureDecode.
C6_GarbledSignature ==
  VerifiedGarbled
    => /\ (/\ Len(StoredSig) = Len(signed[2].signature.sig)
           /\ StoredSig # signed[2].signature.sig
           /\ ValidUnpadded(StoredSig))
            => Fails(last.res, "InvalidSignature")
       /\ IsPrefix(StoredSig, signed[2].signature.sig)
            => IF ValidUnpadded(StoredSig)
                 THEN Fails(last.res, "SignatureLength")
                 ELSE Fails(last.res, "SignatureDecode")
       /\ ~InAlphabet(StoredSig) => Fails(last.res, "SignatureDecode")

C6_TruncatedNotBase64 ==
  /\ VerifiedGarbled
  /\ IsPrefix(StoredSig, signed[2].signature.sig)
  /\ ~ValidUnpadded(StoredSig)
  /\ Fails(last.res, "SignatureDecode")

C6_TruncatedBase64 ==
  /\ VerifiedGarbled
  /\ IsPrefix(StoredSig, signed[2].signature.sig)
  /\ Len(StoredSig) > 0
  /\ Fails(last.res, "SignatureLength")

C6_Overwritten ==
  /\ VerifiedGarbled
  /\ Len(StoredSig) = Len(signed[2].signature.sig)
  /\ Fails(last.res, "InvalidSignature")

C6_Inserted ==
  /\ VerifiedGarbled
  /\ ~InAlphabet(StoredSig)
  /\ Fails(last.res, "SignatureDecode")

\* The verifying key of the last verify_pack_dir call.
SuppliedKey == from_public_key_pem(last.args.public_key_pem[2])

\* C7 as stated: verifying a signed, untampered pack with a well-formed
\* public key other than the signer's fails with KeyIdMismatch(expected =
\* stored key id, provided = fingerprint of the supplied key).
C7_KeyMismatchAsStated ==
  (/\ last.op = "verify_pack_dir"
   /\ IsSome(signed)
   /\ fs = signed[2].fs
   /\ IsSome(last.args.public_key_pem)
   /\ IsOk(SuppliedKey)
   /\ SuppliedKey[2] # PublicKeyOf(signed[2].seed))
    => last.res = VerificationError("KeyIdMismatch",
                                    <<signed[2].signature.key_id,
                                      derive_key_id(SuppliedKey[2])>>)

\* The last call verified, with a well-formed key other than the signer's,
\* a pack hashed as at signing time whose stored block is the written one
\* but possibly for its sig.
VerifiedWithOtherKey ==
  /\ last.op = "verify_pack_dir"
  /\ IsSome(signed)
  /\ IsOk(read_signature(fs))
  /\ IsSome(read_signature(fs)[2])
  /\ [read_signature(fs)[2][2] EXCEPT !.sig = signed[2].signature.sig]
       = signed[2].signature
  /\ CurrentEntries = Ok(signed[2].entries)
  /\ IsSome(last.args.public_key_pem)
  /\ IsOk(SuppliedKey)
  /\ SuppliedKey[2] # PublicKeyOf(signed[2].seed)

\* C7: verifying a signed pack, hashed as at signing time, with a
\* well-formed public key other than the signer's and whose fingerprint is
\* not the stored key id fails with KeyIdMismatch(expected = stored key id,
\* provided = fingerprint of the supplied key), also when the stored sig
\* does not decode: the failure comes before decoding and cryptography.
C7_KeyMismatch ==
  (/\ VerifiedWithOtherKey
   /\ derive_key_id(SuppliedKey[2]) # signed[2].signature.key_id)
    => last.res = VerificationError("KeyIdMismatch",
                                    <<signed[2].signature.key_id,
                                      derive_key_id(SuppliedKey[2])>>)

C7_MismatchBeforeDecode ==
  /\ VerifiedWithOtherKey
  /\ derive_key_id(SuppliedKey[2]) # signed[2].signature.key_id
  /\ ~InAlphabet(StoredSig)
  /\ Fails(last.res, "KeyIdMismatch")

\* The step creates, modifies or deletes a file that is under .git/ or
\* target/ or that a .packignore line matches.
MutatesIgnored ==
  /\ last'.op \in {"write_file", "remove_file"}
  /\ fs' # fs
  /\ Ignored(fs, last'.args)

\* The digest and every verification outcome are the same after the step.
SameDigestAndOutcome ==
  /\ canonicalize_pack_dir(fs') = canonicalize_pack_dir(fs)
  /\ \A opts \in IgnoreVerifyOptions :
       verify_pack_dir(fs', oracle', opts) = verify_pack_dir(fs, oracle, opts)

ManifestPaths == {<<MANIFEST_CANDIDATES[i]>> : i \in DOMAIN MANIFEST_CANDIDATES}

C8_OrderIndependence ==
  (last.op = "canonicalize_pack_dir" /\ IsOk(last.res))
    => \A order \in WalkOrders(fs) :
         canonicalize_in_order(fs, order) = last.res

C8_CanonicalizedOutOfOrder ==
  /\ last.op = "canonicalize_pack_dir"
  /\ IsOk(last.res)
  /\ Cardinality(TrackedPaths(fs)) >= 3
  /\ last.args # DirectoryOrder(Walked(fs))
  /\ PathExists(fs, SUB_FLOW)

\* C9: with no other field of the manifest changed in between,
\* read_manifest_without_signature returns the same bytes before and after
\* write_signature, whether or not a signature block was present the first
\* time; and stripping what it returned returns it again.
C9_StrippedManifestStable ==
  (/\ last.op = "read_manifest_without_signature"
   /\ IsOk(last.res))
    => /\ IsSome(stripped)
       /\ last.res[2] = stripped[2].bytes
       /\ read_manifest_without_signature(
            FsWrite(fs, manifest_path(fs)[2], last.res[2]),
            manifest_path(fs)[2]) = last.res

C9_StrippedAfterWrite ==
  /\ last.op = "read_manifest_without_signature"
  /\ IsOk(last.res)
  /\ IsSome(stripped)
  /\ ~stripped[2].had_signature
  /\ IsOk(read_signature(fs))
  /\ IsSome(read_signature(fs)[2])

\* The manifest document of the directory.
ManifestDoc(f) == load_manifest_value(f, manifest_path(f)[2])[2]

\* The keys of the manifest other than greentic.signature.
OtherKeys(doc) ==
  <<doc.package,
    IF IsTable(doc.greentic) THEN doc.greentic[2] ELSE doc.greentic>>

\* The step is a write_signature in place that succeeded.
WroteInPlace ==
  /\ last'.op = "write_signature"
  /\ fs' # fs \/ last' # last
  /\ IsOk(last'.res)
  /\ last'.args[2] = None

\* C10: after write_signature(D, s, in place) succeeds, read_signature(D)
\* returns exactly s, and every other key of the manifest, the other keys
\* of the greentic section included, is as it was.
C10_WriteReadRoundTrip ==
  [][WroteInPlace
       => /\ read_signature(fs') = Ok(Some(last'.args[1]))
          /\ OtherKeys(ManifestDoc(fs')) = OtherKeys(ManifestDoc(fs))]_vars

C10_WrittenBesideOtherKey ==
  /\ last.op = "write_signature"
  /\ IsOk(last.res)
  /\ last.args[2] = None
  /\ read_signature(fs) = Ok(Some(last.args[1]))
  /\ IsTable(ManifestDoc(fs).greentic)
  /\ ManifestDoc(fs).greentic[2] = Scalar("1")
  /\ ManifestDoc(fs).package = PackageTable(Scalar("demo"))

\* The last call verified a pack that canonicalizes and whose manifest
\* holds a signature block.
VerifiedStored ==
  /\ last.op = "verify_pack_dir"
  /\ IsOk(canonicalize_pack_dir(fs))
  /\ IsOk(read_signature(fs))
  /\ IsSome(read_signature(fs)[2])

Stored == read_signature(fs)[2][2]

\* The digest string of the directory as it is now.
Recomputed == DigestString(canonicalize_pack_dir(fs)[2].digest_hex)

AcceptedAlg(alg) == alg \in {"ed25519", "ED25519", "Ed25519"}

\* C11: when the stored block has an accepted algorithm and its digest
\* differs from the recomputed one, verification fails with DigestMismatch
\* carrying the stored digest as expected and the recomputed digest as
\* computed, whether or not a key is supplied, whether or not the key
\* parses, whether or not its identifier matches, and whatever the sig is.
C11_DigestCheckFirst ==
  (VerifiedStored /\ AcceptedAlg(Stored.alg) /\ Stored.digest # Recomputed)
    => last.res = VerificationError("DigestMismatch",
                                    <<Stored.digest, Recomputed>>)

\* A stale digest is reported although no key was supplied, although the
\* key is not a key, and although the stored sig is not base64.
C11_MismatchWithoutKey ==
  /\ VerifiedStored
  /\ Stored.digest # Recomputed
  /\ last.args.public_key_pem \in {None, Some(GarbagePem)}
  /\ ~ValidUnpadded(Stored.sig)
  /\ Fails(last.res, "DigestMismatch")

\* C13: when verify_pack succeeds on a pack whose manifest holds a
\* signature block, the value returned is the stored PackSignature with
\* all five fields unchanged, alg in its stored letter case included:
\* exactly what read_signature returns.
C13_ReturnsStored ==
  (VerifiedStored /\ IsOk(last.res))
    => /\ read_signature(fs) = Ok(Some(last.res[2]))
       /\ last.res[2].alg = Stored.alg
       /\ last.res[2].key_id = Stored.key_id
       /\ last.res[2].created_at = Stored.created_at
       /\ last.res[2].digest = Stored.digest
       /\ last.res[2].sig = Stored.sig

\* A block whose alg is spelled in capitals verified, and came back so.
C13_ReturnedInStoredCase ==
  /\ VerifiedStored
  /\ IsOk(last.res)
  /\ Stored.alg = "ED25519"
  /\ last.res[2].alg = "ED25519"

\* C14: a stored block is accepted by the algorithm guard only if its alg
\* equals "ed25519" ignoring ASCII case; any other value, "none" included,
\* yields UnsupportedAlgorithm carrying that value, and it does so before
\* the digest is compared (a stale digest does not change the outcome).
C14_AlgorithmGuard ==
  VerifiedStored
    => IF AcceptedAlg(Stored.alg)
         THEN ~Fails(last.res, "UnsupportedAlgorithm")
         ELSE last.res = VerificationError("UnsupportedAlgorithm",
                                           Stored.alg)

\* A block with alg "none" and a stale digest was rejected for its alg.
C14_RejectedBeforeDigest ==
  /\ VerifiedStored
  /\ Stored.alg = "none"
  /\ Stored.digest # Recomputed
  /\ last.res = VerificationError("UnsupportedAlgorithm", "none")

\* The outcomes the specification lists for each check of verify_pack, in
\* the fixed order of the checks.
OutcomesAt(k) ==
  CASE k = 1 -> {"Manifest"}
    [] k = 2 -> {"Manifest", "MissingSignature", "Ok"}
    [] k = 3 -> {"UnsupportedAlgorithm"}
    [] k = 4 -> {"DigestMismatch"}
    [] k = 5 -> {"KeyNotFound"}
    [] k = 6 -> {"PublicKeySpki"}
    [] k = 7 -> {"KeyIdMismatch"}
    [] k = 8 -> {"SignatureDecode"}
    [] k = 9 -> {"SignatureLength"}
    [] k = 10 -> {"SignatureMalformed"}
    [] k = 11 -> {"InvalidSignature", "Ok"}

OutcomeKind(res) == IF res[1] = "Ok" THEN "Ok" ELSE res[2]

\* C12: verify_pack is a linear state machine.  A call in progress has
\* passed at most ten of its eleven checks; each of its steps either moves
\* to the next check (no check is made twice, none is skipped) or ends the
\* call with exactly one outcome, a success or a single error, which is the
\* outcome of the first failing check in the order canonicalize, read
\* signature, algorithm, digest, key supplied, key parses, key id, base64
\* decode, length, structure, cryptographic verification; KeyNotFound and
\* InvalidSignature carry the stored key id.
C12_LinearChecks ==
  /\ [](Pending(last) => last.res[2] \in 0..10)
  /\ [][Pending(last) =>
          /\ last'.op = "verify_pack"
          /\ last'.args = last.args
          /\ IF Pending(last') THEN last'.res[2] = last.res[2] + 1
             ELSE /\ last'.res[1] \in {"Ok", "Err"}
                  /\ OutcomeKind(last'.res) \in OutcomesAt(last.res[2] + 1)
                  /\ \A j \in 1..last.res[2] :
                       VerifyCheck(j, fs, oracle, last.args) = Pass
                  /\ last'.res = verify_pack(fs, oracle, last.args)
                  /\ OutcomeKind(last'.res) \in {"KeyNotFound",
                                                 "InvalidSignature"}
                       => last'.res[3] = Stored.key_id]_vars

\* A call went through all eleven checks and failed at the last one.
C12_EndedAtLastCheck ==
  /\ last.op = "verify_pack"
  /\ Fails(last.res, "InvalidSignature")
  /\ \A j \in 1..10 : VerifyCheck(j, fs, oracle, last.args) = Pass

\* The result is the manifest-not-found error of manifest_path, returned
\* as it is or wrapped by the verifier.
ManifestNotFound(res) ==
  /\ res[1] = "Err"
  /\ \/ res[2] = "ManifestNotFound"
     \/ res[2] = "Manifest" /\ res[3] = "ManifestNotFound"

\* C15: when the pack directory contains none of the recognized manifest
\* file names, the sign command and the verify command (with every
\* combination of --pub and --allow-unsigned) fail with a
\* manifest-not-found error.
C15_MissingManifestFatal ==
  (last.op \in {"sign", "verify"} /\ ~IsSome(find_manifest_path(fs)))
    => ManifestNotFound(last.res)

\* What the commands do instead: sign fails before it writes, verify
\* treats the directory as an unsigned pack.
C15_MissingManifestOutcomes ==
  ~IsSome(find_manifest_path(fs))
    => /\ last.op = "sign" => ~IsOk(last.res)
       /\ (last.op = "sign" /\ IsOk(last.args[1]) /\ ~IsSome(last.args[3]))
            => ManifestNotFound(last.res)
       /\ (last.op = "verify" /\ ~Fails(last.res, "ReadKey"))
            => last.res = IF last.args[2]
                            THEN Ok(PackSignature("none", "unsigned",
                                                  UNIX_EPOCH, Recomputed,
                                                  <<>>))
                            ELSE VerificationError("MissingSignature", <<>>)

ReadOnlyOps ==
  {"sign_pack", "verify_pack_dir", "verify", "canonicalize_pack_dir"}

\* C16: sign_pack, verify_pack (called directly or by the verify command)
\* and canonicalize_pack_dir leave every file of the pack directory as it
\* was, whether they succeed or fail; a file only changes in a step that
\* calls write_signature (directly or from the sign command), and the
\* directory it leaves is the one write_signature computes.
C16_ReadOnly ==
  [][/\ last'.op \in ReadOnlyOps => fs' = fs
     /\ fs' # fs
          => /\ last'.op \in {"write_signature", "sign"}
             /\ IsOk(last'.res)
             /\ last'.op = "write_signature"
                  => Ok(fs') = write_signature(fs, last'.args[1],
                                               last'.args[2])
             /\ last'.op = "sign"
                  => Ok(fs') = write_signature(fs, last'.res[2],
                                               last'.args[3])]_vars

\* sign_pack returned a signature and the manifest still holds none.
C16_SignedNotPersisted ==
  /\ last.op = "sign_pack"
  /\ IsOk(last.res)
  /\ read_signature(fs) = Ok(None)

\* The step is a write_signature or a sign command that succeeded.
WriteStep == last'.op \in {"write_signature", "sign"} /\ IsOk(last'.res)

WriteOut == IF last'.op = "sign" THEN last'.args[3] ELSE last'.args[2]

WrittenSignature ==
  IF last'.op = "sign" THEN last'.res[2] ELSE last'.args[1]

LocatedManifest == manifest_path(fs)[2]

WriteTarget == IF IsSome(WriteOut) THEN WriteOut[2] ELSE LocatedManifest

\* The file a path denotes: the file a link at that path points to, or
\* the path itself.
FileAt(p) == IF PathExists(fs, p) THEN ResolvePath(fs, p)[2] ELSE p

\* C17: a successful write_signature or sign command writes the manifest
\* with the embedded signature to the output path when one is given and
\* to the located manifest otherwise; every other file of the pack is left
\* as it was, and so is the original manifest, byte for byte, when the
\* output path denotes another file than the manifest.
C17_WriteTarget ==
  [][WriteStep
       => /\ ReadSignatureAt(fs', Some(WriteTarget))
               = Ok(Some(WrittenSignature))
          /\ DOMAIN fs' = DOMAIN fs \cup {FileAt(WriteTarget)}
          /\ \A p \in DOMAIN fs : p # FileAt(WriteTarget) => fs'[p] = fs[p]
          /\ FileAt(WriteTarget) # FileAt(LocatedManifest)
               => FsRead(fs', LocatedManifest) = FsRead(fs, LocatedManifest)
          /\ ~IsSome(WriteOut)
               => FileAt(WriteTarget) = FileAt(LocatedManifest)]_vars

\* The sign command wrote the signed manifest beside pack.toml, which
\* still holds no signature.
C17_WrittenToOut ==
  /\ last.op = "sign"
  /\ IsOk(last.res)
  /\ last.args[3] = Some(GREENTIC_PACK_TOML)
  /\ ReadSignatureAt(fs, Some(GREENTIC_PACK_TOML)) = Ok(Some(last.res[2]))
  /\ FsRead(fs, PACK_TOML) = Ok(ManifestDemo)

\* The output path was a link to the manifest: the manifest was rewritten.
C17_WrittenThroughLink ==
  /\ last.op = "sign"
  /\ IsOk(last.res)
  /\ last.args[3] = Some(ALIAS_TOML)
  /\ fs[ALIAS_TOML] = Link(PACK_TOML)
  /\ ReadSignatureAt(fs, Some(PACK_TOML)) = Ok(Some(last.res[2]))

\* The last call canonicalized the directory as it is now.
Canonicalized ==
  /\ last.op = "canonicalize_pack_dir"
  /\ IsOk(last.res)
  /\ IsOk(CurrentEntries)
  /\ last.res[2].bytes = BuildBuffer(CurrentEntries[2])

\* The paths that have an entry in the canonical buffer.
InBuffer ==
  {p \in DOMAIN fs :
     \E i \in DOMAIN CurrentEntries[2] :
        CurrentEntries[2][i].rel_path = JoinSegments(p)}

\* A built-in rule applies: a segment .git or target, or the name .DS_Store.
BuiltInSkipped(p) ==
  \/ \E i \in DOMAIN p : p[i] = ".git" \/ p[i] = "target"
  \/ p[Len(p)] = ".DS_Store"

MatchedByPackignore(p) == PathIgnored(IgnoreLines(fs), p)

\* C18: a file with a path segment .git or target, or named .DS_Store, is
\* never in the canonical buffer whatever .packignore contains, negation
\* patterns included; and a file .packignore matches is not in the buffer
\* even when no built-in rule applies to it.
C18_BuiltInAndPackignore ==
  Canonicalized
    => \A p \in DOMAIN fs :
          (BuiltInSkipped(p) \/ MatchedByPackignore(p)) => p \notin InBuffer

\* .packignore negates the built-in rules, and files under .git and
\* target, a .DS_Store and a file only .packignore matches are left out.
C18_NegationDoesNotReinclude ==
  /\ Canonicalized
  /\ FsRead(fs, PACKIGNORE) = Ok(IgnoreNegatingBuiltIns)
  /\ {GIT_CONFIG, TARGET_CACHE, FLOWS_DS_STORE, IGNORED_SECRET}
       \subseteq DOMAIN fs
  /\ InBuffer = {PACK_TOML, MAIN_FLOW, PACKIGNORE}

\* C19: every regular file under the root that neither .packignore nor a
\* built-in rule matches is in the canonical buffer, hidden files and
\* files listed in .gitignore included.
C19_NoOtherIgnoreMechanism ==
  Canonicalized
    => \A p \in DOMAIN fs :
          (fs[p][1] = "file" /\ ~BuiltInSkipped(p) /\ ~MatchedByPackignore(p))
            => p \in InBuffer

\* A hidden file and a flow, both listed in .gitignore, are hashed, and so
\* is .gitignore.
C19_HiddenAndGitIgnoredTracked ==
  /\ Canonicalized
  /\ FsRead(fs, GITIGNORE) = Ok(GitIgnoreFile)
  /\ {HIDDEN_ENV, MAIN_FLOW, GITIGNORE} \subseteq InBuffer

\* The last call signed the pack; the buffer it hashed.
SignedNow == last.op = "sign_pack_dir" /\ IsOk(last.res)

SignedBuffer == BuildBuffer(signed[2].entries)

\* C20: the signature the signer returns has alg "ed25519", digest
\* "sha256:" followed by the hex SHA-256 of the canonical buffer, sig the
\* URL-safe unpadded base64 text of the 64-byte Ed25519 signature over
\* that buffer, and key_id the override when one was supplied, otherwise
\* the fingerprint of the public key.
C20_SignerOutput ==
  SignedNow
    => /\ last.res[2].alg = "ed25519"
       /\ last.res[2].digest
            = <<"sha256:", <<"hex", <<"sha256", SignedBuffer>> >> >>
       /\ InAlphabet(last.res[2].sig)
       /\ Len(last.res[2].sig) = 86
       /\ \E raw \in {B64Decode(last.res[2].sig)} :
            /\ IsOk(raw)
            /\ Len(raw[2]) = 64
            /\ B64Encode(raw[2]) = last.res[2].sig
            /\ Ed25519Verify(oracle, PublicKeyOf(signed[2].seed),
                             SignedBuffer, raw[2])
       /\ last.res[2].key_id
            = IF IsSome(signed[2].key_id) THEN signed[2].key_id[2]
              ELSE derive_key_id(PublicKeyOf(signed[2].seed))

\* A pack was signed with the key-id override "custom-key".
C20_SignedWithOverride ==
  /\ SignedNow
  /\ signed[2].key_id = Some("custom-key")
  /\ last.res[2].key_id = "custom-key"
  /\ last.res[2].digest = DigestString(HexEncode(Sha256(SignedBuffer)))

\* The bytes the layout prescribes for a sequence of entries: for each,
\* PATH\0<path>\nLEN\0<decimal length>\n and the content.
RECURSIVE LayoutOf(_)
LayoutOf(es) ==
  IF es = <<>> THEN <<>>
  ELSE <<B("PATH\\0")>>
         \o [i \in DOMAIN Head(es).rel_path |-> B(Head(es).rel_path[i])]
         \o <<B("\nLEN\\0")>> \o Decimal(Len(Head(es).contents))
         \o <<B("\n")>> \o Head(es).contents \o LayoutOf(Tail(es))

\* C21: the canonical buffer is the concatenation, over the tracked files
\* in strictly ascending order of their /-joined relative path, of the
\* header PATH\0<path>\nLEN\0<decimal length>\n and the content; every
\* tracked path occurs exactly once and LEN is the length of the content
\* that follows.
C21_BufferLayout ==
  (last.op = "canonicalize_pack_dir" /\ IsOk(last.res))
    => /\ IsOk(CurrentEntries)
       /\ last.res[2].bytes = LayoutOf(CurrentEntries[2])
       /\ \A i, j \in DOMAIN CurrentEntries[2] :
            i < j => StrLess(CurrentEntries[2][i].rel_path,
                             CurrentEntries[2][j].rel_path)
       /\ {CurrentEntries[2][i].rel_path : i \in DOMAIN CurrentEntries[2]}
            = {JoinSegments(p) : p \in TrackedPaths(fs)}
       /\ Len(CurrentEntries[2]) = Cardinality(TrackedPaths(fs))

\* Three files with contents of different lengths were laid out, the
\* walker having yielded them in another order.
C21_LaidOutThree ==
  /\ last.op = "canonicalize_pack_dir"
  /\ IsOk(last.res)
  /\ Len(CurrentEntries[2]) = 3
  /\ last.args # DirectoryOrder(Walked(fs))
  /\ FsRead(fs, MAIN_FLOW) = Ok(FlowModified)
  /\ last.res[2].bytes = LayoutOf(CurrentEntries[2])

\* The contents the canonical buffer holds for the tracked path p.
EntryContents(p) ==
  CurrentEntries[2][CHOOSE i \in DOMAIN CurrentEntries[2] :
                      CurrentEntries[2][i].rel_path = JoinSegments(p)].contents

\* The manifest read_signature and write_signature operate on.
Authoritative(p) == find_manifest_path(fs) = Some(p)

\* C22: only the authoritative manifest, the first existing candidate in
\* the pack root, contributes its signature-stripped re-serialization to
\* the canonical buffer; every other tracked file, a second candidate in
\* the root and a file named like a manifest in a subdirectory included,
\* contributes its raw bytes.
C22_OnlyAuthoritativeStripped ==
  Canonicalized
    => \A p \in TrackedPaths(fs) :
          Ok(EntryContents(p))
            = IF Authoritative(p) THEN read_manifest_without_signature(fs, p)
              ELSE FsRead(fs, p)

\* What the code does: every tracked file whose name is a candidate name
\* is stripped and re-serialized, wherever it lies.
C22_StrippedByFileName ==
  Canonicalized
    => \A p \in TrackedPaths(fs) :
          Ok(EntryContents(p))
            = IF p[Len(p)] \in {"pack.toml", "greentic-pack.toml"}
                THEN read_manifest_without_signature(fs, p)
                ELSE FsRead(fs, p)

\* The step is a sign_pack_dir or a sign command.
SigningStep == last'.op \in {"sign_pack_dir", "sign"}

\* The key text the step was given: the PEM, or the result of reading the
\* key file.
SigningKeyText ==
  IF last'.op = "sign" THEN last'.args[1] ELSE Ok(last'.args[1])

\* C23: a sign_pack_dir or sign command that fails, at whatever step,
\* writes no file, so a signature block stored before is as it was; a file
\* is written only in a call in which canonicalization, key loading and
\* signing all succeeded.
C23_FailedSigningWritesNothing ==
  [][SigningStep
       => /\ ~IsOk(last'.res)
               => fs' = fs /\ read_signature(fs') = read_signature(fs)
          /\ fs' # fs
               => /\ IsOk(last'.res)
                  /\ IsOk(canonicalize_pack_dir(fs))
                  /\ IsOk(SigningKeyText)
                  /\ IsOk(load_signing_key(SigningKeyText[2]))]_vars

\* A signing failed on a directory that cannot be walked, and the block an
\* earlier signing stored is still there.
C23_FailedAfterSigned ==
  /\ last.op \in {"sign_pack_dir", "sign"}
  /\ ~IsOk(last.res)
  /\ ~IsOk(canonicalize_pack_dir(fs))
  /\ IsOk(read_signature(fs))
  /\ IsSome(read_signature(fs)[2])

\* Writer w completes its write in this step, and the write succeeded.
Wrote(w) ==
  /\ Reading(w)
  /\ ~Reading(w)'
  /\ last'.op = "write_manifest"
  /\ IsOk(last'.res)

\* The signature block of a document.
BlockOf(doc) == IF IsTable(doc.greentic) THEN doc.greentic[3] ELSE Absent

\* C24: the write is a read-modify-write without a lock.  The manifest a
\* writer leaves is what it read with its own change applied: when another
\* writer wrote between its read and its write, that writer's change is
\* overwritten; when nothing was written in between (the writers are
\* serialized), every other field is as the earlier writers left it, a
\* signer's block is the stored one, and an editor leaves the block alone.
C24_ReadModifyWrite ==
  [][\A w \in Writers :
       Wrote(w)
         => /\ Ok(ManifestDoc(fs'))
                 = Applied(inflight[w][2].job, inflight[w][2].doc)
            /\ inflight[w][2].doc = ManifestDoc(fs)
                 => IF inflight[w][2].job[1] = "sign"
                      THEN /\ OtherKeys(ManifestDoc(fs'))
                                = OtherKeys(ManifestDoc(fs))
                           /\ read_signature(fs')
                                = Ok(Some(inflight[w][2].job[2]))
                      ELSE /\ BlockOf(ManifestDoc(fs'))
                                = BlockOf(ManifestDoc(fs))
                           /\ ManifestDoc(fs').package
                                = PackageTable(Scalar("renamed"))]_vars

\* A lost update: a signer and an editor have both written, and the
\* manifest holds the signature but still the old package name.
C24_LostUpdate ==
  /\ \A w \in Writers : IsSome(inflight[w]) /\ inflight[w][2].done
  /\ inflight["a"][2].job[1] = "sign"
  /\ inflight["b"][2].job = <<"edit", "renamed">>
  /\ read_signature(fs) = Ok(Some(inflight["a"][2].job[2]))
  /\ ManifestDoc(fs).package = PackageTable(Scalar("demo"))

\* Serialized, the same two writers leave both the signature and the new
\* package name.
C24_SerializedKeepsBoth ==
  /\ \A w \in Writers : IsSome(inflight[w]) /\ inflight[w][2].done
  /\ inflight["a"][2].job[1] = "sign"
  /\ inflight["b"][2].job = <<"edit", "renamed">>
  /\ read_signature(fs) = Ok(Some(inflight["a"][2].job[2]))
  /\ ManifestDoc(fs).package = PackageTable(Scalar("renamed"))


\* C25: when verify_pack returns success with an alg other than "none", a
\* block is stored in the manifest verification reads, its digest is
\* "sha256:" followed by the hex SHA-256 of the canonical buffer of the
\* directory, a public key was supplied whose derived identifier equals the
\* stored key_id, and the stored sig decodes to a 64-byte Ed25519 signature
\* of that buffer valid under that key.  No sequence of signing, writing,
\* rewriting of the block and removal reaches a success lacking any of
\* these.
C25_Soundness ==
  (last.op = "verify_pack_dir" /\ IsOk(last.res) /\ last.res[2].alg # "none")
    => /\ IsOk(manifest_path(fs))
       /\ IsOk(read_signature(fs))
       /\ IsSome(read_signature(fs)[2])
       /\ IsOk(canonicalize_pack_dir(fs))
       /\ Stored.digest
            = <<"sha256:",
                <<"hex", <<"sha256", canonicalize_pack_dir(fs)[2].bytes>> >> >>
       /\ IsSome(last.args.public_key_pem)
       /\ IsOk(SuppliedKey)
       /\ derive_key_id(SuppliedKey[2]) = Stored.key_id
       /\ IsOk(B64Decode(Stored.sig))
       /\ Len(B64Decode(Stored.sig)[2]) = SIGNATURE_BYTE_SIZE
       /\ Ed25519Verify(oracle, SuppliedKey[2],
                        canonicalize_pack_dir(fs)[2].bytes,
                        B64Decode(Stored.sig)[2])

\* A pack edited and then signed verified under the matching key, its alg
\* rewritten in another letter case afterwards.
C25_AcceptedAfterRewrite ==
  /\ last.op = "verify_pack_dir"
  /\ IsOk(last.res)
  /\ last.res[2].alg = "Ed25519"
  /\ FsRead(fs, MAIN_FLOW) = Ok(FlowModified)
  /\ Ed25519Verify(oracle, SuppliedKey[2],
                   canonicalize_pack_dir(fs)[2].bytes,
                   B64Decode(Stored.sig)[2])


\* The manifest verification reads holds a `signature` entry under
\* `greentic`, well formed or not.
BlockStored ==
  /\ IsOk(manifest_path(fs))
  /\ IsOk(load_manifest_value(fs, manifest_path(fs)[2]))
  /\ BlockOf(ManifestDoc(fs)) # Absent

\* The options of the last verification with allow_unsigned negated.
OtherAllowUnsigned == [last.args EXCEPT !.allow_unsigned = ~@]

\* C26: when a signature block is stored, verify_pack with allow_unsigned
\* true returns exactly the outcome it returns with allow_unsigned false
\* (the same success value or the same error); the sentinel result with
\* alg "none" is returned only when no signature block is stored.
C26_AllowUnsignedNeutral ==
  last.op = "verify_pack_dir"
    => /\ BlockStored => last.res = verify_pack(fs, oracle, OtherAllowUnsigned)
       /\ (IsOk(last.res) /\ last.res[2].alg = "none")
            => (~BlockStored /\ last.args.allow_unsigned)

\* A signed pack verified without a key and with allow_unsigned set was
\* refused for the missing key.
C26_SignedStillNeedsKey ==
  /\ last.op = "verify_pack_dir"
  /\ BlockStored
  /\ last.args.allow_unsigned
  /\ last.args.public_key_pem = None
  /\ last.res = VerificationError("KeyNotFound", Stored.key_id)


\* The fingerprint of the public key of the key pair that signed last.
SignerFingerprint == derive_key_id(PublicKeyOf(signed[2].seed))

\* The last signing was given a key identifier that differs from the
\* fingerprint of its key, and the manifest still holds a block with that
\* identifier.
SignedWithForeignKeyId ==
  /\ IsSome(signed)
  /\ IsSome(signed[2].key_id)
  /\ signed[2].key_id[2] # SignerFingerprint
  /\ IsOk(read_signature(fs))
  /\ IsSome(read_signature(fs)[2])
  /\ Stored.key_id = signed[2].key_id[2]

\* The stored digest and sig are those of the directory as it is: the
\* digest is the recomputed one and the sig verifies under the signing key.
DigestAndSigValid ==
  /\ IsOk(canonicalize_pack_dir(fs))
  /\ AcceptedAlg(Stored.alg)
  /\ Stored.digest = Recomputed
  /\ IsOk(B64Decode(Stored.sig))
  /\ Ed25519Verify(oracle, PublicKeyOf(signed[2].seed),
                   canonicalize_pack_dir(fs)[2].bytes,
                   B64Decode(Stored.sig)[2])

\* C27: a pack signed with an explicit key identifier that differs from the
\* fingerprint of the signing key's public key is never accepted by
\* verify_pack; with the matching public key, and the digest and the
\* signature bytes valid, verification fails with KeyIdMismatch carrying the
\* stored identifier and the fingerprint of the supplied key.
C27_OverrideBreaksRoundTrip ==
  (last.op = "verify_pack_dir" /\ SignedWithForeignKeyId)
    => /\ ~IsOk(last.res)
       /\ ( /\ DigestAndSigValid
            /\ last.args.public_key_pem
                 = Some(PublicPem(PublicKeyOf(signed[2].seed))) )
            => last.res = VerificationError("KeyIdMismatch",
                                            <<Stored.key_id,
                                              SignerFingerprint>>)

\* Signed with the fingerprint of another key as identifier, untouched, and
\* verified with the signing key's public key: refused for the identifier.
C27_RefusedWithMatchingKey ==
  /\ last.op = "verify_pack_dir"
  /\ SignedWithForeignKeyId
  /\ DigestAndSigValid
  /\ last.args.public_key_pem = Some(PublicPem(PublicKeyOf(signed[2].seed)))
  /\ Fails(last.res, "KeyIdMismatch")


\* The manifest parses and its `greentic` value is not a table, or its
\* `greentic.signature` value does not deserialize into a PackSignature.
MalformedBlock ==
  /\ IsOk(manifest_path(fs))
  /\ IsOk(load_manifest_value(fs, manifest_path(fs)[2]))
  /\ \/ ManifestDoc(fs).greentic # Absent /\ ~IsTable(ManifestDoc(fs).greentic)
     \/ /\ BlockOf(ManifestDoc(fs)) # Absent
        /\ \/ BlockOf(ManifestDoc(fs))[1] # "table"
           \/ ~IsOk(SignatureFromToml(BlockOf(ManifestDoc(fs))[2]))

\* No manifest is found, or the one found has no `greentic` section or a
\* `greentic` table without a `signature` key.
NoSignatureEntry ==
  \/ ~IsSome(find_manifest_path(fs))
  \/ /\ IsOk(load_manifest_value(fs, manifest_path(fs)[2]))
     /\ \/ ManifestDoc(fs).greentic = Absent
        \/ /\ IsTable(ManifestDoc(fs).greentic)
           /\ ManifestDoc(fs).greentic[3] = Absent

\* The outcomes verify_pack has for an unsigned pack.
TreatedAsUnsigned(res) ==
  \/ IsOk(res) /\ res[2].alg = "none"
  \/ Fails(res, "MissingSignature")

\* C28: read_signature returns "no signature" only when the `greentic`
\* section is absent or has no `signature` key.  When `greentic` is not a
\* table, or `greentic.signature` does not deserialize, read_signature
\* fails and verify_pack fails with a manifest error, with allow_unsigned
\* set as well: it returns neither the sentinel nor MissingSignature.
C28_MalformedIsNotUnsigned ==
  /\ read_signature(fs) = Ok(None) => NoSignatureEntry
  /\ MalformedBlock => ~IsOk(read_signature(fs))
  /\ last.op = "verify_pack_dir"
       => /\ TreatedAsUnsigned(last.res) => NoSignatureEntry
          /\ MalformedBlock
               => /\ Fails(last.res, "Manifest")
                  /\ ~TreatedAsUnsigned(last.res)

\* A manifest whose `greentic.signature` is a scalar was verified with
\* allow_unsigned set, and refused with a manifest error.
C28_MalformedRefused ==
  /\ last.op = "verify_pack_dir"
  /\ last.args.allow_unsigned
  /\ MalformedBlock
  /\ BlockOf(ManifestDoc(fs)) = Scalar("1")
  /\ Fails(last.res, "Manifest")


\* The set of (relative path, content) entries of a collected sequence.
EntrySet(entries) == {entries[i] : i \in DOMAIN entries}

\* C29: the canonical encoding is injective.  Two sets of tracked
\* (relative path, content) entries that differ in a path or in a content
\* byte have different canonical buffers, whatever the order they were
\* collected in, also when a path holds a newline and the text LEN and a
\* content holds the bytes of a header; the same set gives the same buffer
\* in every order.
C29_EncodingInjective ==
  last.op = "canonical_buffer"
    => \A other \in CollectedEntries :
         (canonical_buffer(other) = last.res)
           <=> (EntrySet(other) = EntrySet(last.args))

\* The buffer of one file "a" whose content is the header of an empty file
\* "b" was built: it holds the same headers as the buffer of two empty
\* files "a" and "b", and differs from it in the recorded length.
C29_ContentMimicsHeader ==
  /\ last.op = "canonical_buffer"
  /\ last.args = <<CanonicalEntry(<<97>>, header(CanonicalEntry(<<98>>, <<>>)))>>
  /\ last.res = PATH_TAG \o <<97>> \o LEN_TAG \o <<49, 51>> \o NEWLINE
                  \o PATH_TAG \o <<98>> \o LEN_TAG \o <<48>> \o NEWLINE
  /\ last.res # canonical_buffer(<<CanonicalEntry(<<97>>, <<>>),
                                   CanonicalEntry(<<98>>, <<>>)>>)


\* The pack was signed, its block is the one signing wrote, and the content
\* of .packignore is no longer the one that was there at signing.
IgnoreFileChanged ==
  /\ IsSome(signed)
  /\ read_signature(fs) = Ok(Some(signed[2].signature))
  /\ PathExists(fs, PACKIGNORE)
  /\ PathExists(signed[2].fs, PACKIGNORE)
  /\ FsRead(fs, PACKIGNORE) # FsRead(signed[2].fs, PACKIGNORE)

\* A line of the directory's .packignore matches .packignore.
MatchesItself(f) == PathIgnored(IgnoreLines(f), PACKIGNORE)

\* C30 as stated: .packignore contributes to the buffer like any other
\* file, so after its content was changed the recomputed digest differs
\* from the signed one and verification fails with DigestMismatch.
C30_IgnoreFileTrackedAsStated ==
  (last.op = "verify_pack_dir" /\ IgnoreFileChanged)
    => /\ Stored.digest # Recomputed
       /\ Fails(last.res, "DigestMismatch")

\* C30: .packignore contributes to the buffer like any other file unless
\* one of its own lines matches it.  When .packignore was not matched by
\* itself at signing, or is not after the change, changing its content
\* changes the digest and verification fails with DigestMismatch carrying
\* the stored and the recomputed digest.
C30_IgnoreFileTracked ==
  /\ (PathExists(fs, PACKIGNORE) /\ ~MatchesItself(fs))
       => \E i \in DOMAIN canonical_entries(fs, DirectoryOrder(Walked(fs)))[2] :
            canonical_entries(fs, DirectoryOrder(Walked(fs)))[2][i]
              = [rel_path |-> PACKIGNORE,
                 contents |-> FsRead(fs, PACKIGNORE)[2]]
  /\ ( /\ last.op = "verify_pack_dir"
       /\ IgnoreFileChanged
       /\ ~(MatchesItself(fs) /\ MatchesItself(signed[2].fs)) )
       => /\ Stored.digest # Recomputed
          /\ last.res = VerificationError("DigestMismatch",
                                          <<Stored.digest, Recomputed>>)

\* A pattern hiding main.flow was added to a tracked .packignore after
\* signing, and verification failed with DigestMismatch.
C30_PatternAddedAfterSigning ==
  /\ last.op = "verify_pack_dir"
  /\ IgnoreFileChanged
  /\ FsRead(signed[2].fs, PACKIGNORE) = Ok(IgnoreFile)
  /\ FsRead(fs, PACKIGNORE) = Ok(IgnoreHidingFlow)
  /\ FsRead(fs, MAIN_FLOW) = FsRead(signed[2].fs, MAIN_FLOW)
  /\ Fails(last.res, "DigestMismatch")

====
